---- MODULE Spec2Model ----
(***************************************************************************)
(* A model of the visual-debug trace synthesizer: the CodeParser class     *)
(* (source-code path `parse` and the three canonical generators).          *)
(*                                                                         *)
(* JavaScript arrays are 0-indexed; they are modelled as TLA+ sequences,   *)
(* JS index k being position k + 1.  Get/Put give the JS semantics of a    *)
(* read and a write at a JS index, including reads and writes beyond the   *)
(* current length.                                                         *)
(***************************************************************************)
EXTENDS Integers, Sequences, FiniteSets, TLC

\* ------------------------------------------------------------------------
\* Bounds of the model
\* ------------------------------------------------------------------------
MaxLen == 3      \* longest array given to a generator or to the nested replay
MaxVal == 2      \* largest array element
MaxLitLen == 2   \* longest array literal of the discovery programs
MaxIdx == 3      \* largest literal index of a swap statement
MaxStmts == 2    \* most statements after the declaration in loop-free code
MaxCalls == 3    \* most calls of the parser in one session of the extension

Values == 0..MaxVal
RECURSIVE SeqsUpTo(_, _)
SeqsUpTo(S, n) ==
  IF n = 0 THEN {<<>>}
  ELSE LET shorter == SeqsUpTo(S, n - 1)
       IN shorter \cup {Append(s, x) : s \in {t \in shorter : Len(t) = n - 1}, x \in S}
InputArrays == SeqsUpTo(Values, MaxLen)

\* ------------------------------------------------------------------------
\* JavaScript values and arrays
\* ------------------------------------------------------------------------
\* The value a read outside an array (or of a hole) produces.
undefined == -1

\* a[k] for a JS index k
Get(a, k) == IF k \in 0..(Len(a) - 1) THEN a[k + 1] ELSE undefined

\* a[k] = v for a JS index k >= 0: a write at or beyond the length grows the
\* array, the skipped positions reading as undefined.
Put(a, k, v) ==
  IF k < Len(a) THEN [a EXCEPT ![k + 1] = v]
  ELSE [p \in 1..(k + 1) |-> IF p <= Len(a) THEN a[p] ELSE IF p = k + 1 THEN v ELSE undefined]

\* JS relational operators: a comparison with undefined is false.
Gt(x, y) == x # undefined /\ y # undefined /\ x > y
Lt(x, y) == x # undefined /\ y # undefined /\ x < y
Ge(x, y) == x # undefined /\ y # undefined /\ x >= y
Le(x, y) == x # undefined /\ y # undefined /\ x <= y

\* [a[p], a[q]] = [a[q], a[p]]: the right side is read first, then a[p] and
\* a[q] are written in that order.
SwapAt(a, p, q) == Put(Put(a, p, Get(a, q)), q, Get(a, p))

\* ------------------------------------------------------------------------
\* Operation records (the events of a trace)
\* ------------------------------------------------------------------------
HighlightColor == 16755200   \* 0xffaa00

initOp(a)          == [type |-> "init", array |-> a]
compareOp(ix, vs)  == [type |-> "compare", indices |-> ix, values |-> vs]
swapOp(ix, vs)     == [type |-> "swap", indices |-> ix, values |-> vs]
sortedOp(ix)       == [type |-> "sorted", indices |-> ix]
highlightOp(ix)    == [type |-> "highlight", indices |-> ix, color |-> HighlightColor]
completeOp         == [type |-> "complete"]

\* ------------------------------------------------------------------------
\* Syntax trees (the nodes @babel/parser produces, as far as the code reads
\* them).  Every node is a record with a `type`; an absent child is Null.
\* ------------------------------------------------------------------------
Null == [type |-> "Null"]
\* What stands for source text that parser.parse rejects: there is no tree.
SyntaxError == [type |-> "SyntaxError"]
Num(v) == [type |-> "NumericLiteral", value |-> v]
Str == [type |-> "StringLiteral"]
Id(n) == [type |-> "Identifier", name |-> n]
Member(obj, prop) == [type |-> "MemberExpression", object |-> obj, property |-> prop]
Bin(op, l, r) == [type |-> "BinaryExpression", operator |-> op, left |-> l, right |-> r]
Update(arg) == [type |-> "UpdateExpression", argument |-> arg]
ArrayExpr(els) == [type |-> "ArrayExpression", elements |-> els]
ArrayPat(els) == [type |-> "ArrayPattern", elements |-> els]
Assign(op, l, r) == [type |-> "AssignmentExpression", operator |-> op, left |-> l, right |-> r]
ExprStmt(e) == [type |-> "ExpressionStatement", expression |-> e]
Declarator(id, init) == [type |-> "VariableDeclarator", id |-> id, init |-> init]
VarDecl(ds) == [type |-> "VariableDeclaration", declarations |-> ds]
Block(stmts) == [type |-> "BlockStatement", body |-> stmts]
IfStmt(t, c, a) == [type |-> "IfStatement", test |-> t, consequent |-> c, alternate |-> a]
ForStmt(init, t, u, b) == [type |-> "ForStatement", init |-> init, test |-> t, update |-> u, body |-> b]
Func(n, b) == [type |-> "FunctionDeclaration", id |-> Id(n), body |-> b]
Program(stmts) == [type |-> "Program", body |-> stmts]

\* The children of a node, in the order traverse visits them.
Children(n) ==
  CASE n.type \in {"Program", "BlockStatement"} -> n.body
    [] n.type = "FunctionDeclaration" -> <<n.id, n.body>>
    [] n.type = "ForStatement" -> <<n.init, n.test, n.update, n.body>>
    [] n.type = "IfStatement" -> <<n.test, n.consequent, n.alternate>>
    [] n.type = "VariableDeclaration" -> n.declarations
    [] n.type = "VariableDeclarator" -> <<n.id, n.init>>
    [] n.type = "ExpressionStatement" -> <<n.expression>>
    [] n.type \in {"AssignmentExpression", "BinaryExpression"} -> <<n.left, n.right>>
    [] n.type = "MemberExpression" -> <<n.object, n.property>>
    [] n.type \in {"ArrayExpression", "ArrayPattern"} -> n.elements
    [] n.type = "UpdateExpression" -> <<n.argument>>
    [] OTHER -> <<>>

\* traverse: the nodes of a tree in visiting order (depth first, a node
\* before its children).  intoFunctions = FALSE leaves out what lies inside a
\* function, which is where path.getFunctionParent() is not null.
RECURSIVE PreOrder(_, _), PreOrderAll(_, _)
PreOrder(n, intoFunctions) ==
  IF n.type = "Null" THEN <<>>
  ELSE IF n.type = "FunctionDeclaration" /\ ~intoFunctions THEN <<n>>
  ELSE <<n>> \o PreOrderAll(Children(n), intoFunctions)
PreOrderAll(ns, intoFunctions) ==
  IF ns = <<>> THEN <<>>
  ELSE PreOrder(Head(ns), intoFunctions) \o PreOrderAll(Tail(ns), intoFunctions)

\* traverse(root, visitors): the nodes below root (root itself is not
\* visited) whose type has a visitor.
IsOfType(n, types) == n.type \in types
Visited(root, types) ==
  LET below == PreOrderAll(Children(root), TRUE)
      Keep(n) == IsOfType(n, types)
  IN SelectSeq(below, Keep)

\* ------------------------------------------------------------------------
\* Pattern classifiers.  A result that may be null is a sequence: <<>> is
\* null, <<v>> (or <<i1, i2>>) a value.
\* ------------------------------------------------------------------------
\* Detect: [arr[i], arr[j]] = [arr[j], arr[i]]
isSwapOperation(node) ==
  /\ node.expression.type = "AssignmentExpression"
  /\ node.expression.left.type = "ArrayPattern"
  /\ node.expression.right.type = "ArrayExpression"

\* Variant of getIndexFromArrayAccess: an index that is not a numeric literal
\* is guessed (0 for a variable, 1 for anything else).
getIndexFromArrayAccess_guess(node) ==
  IF node.type = "Null" \/ "property" \notin DOMAIN node THEN <<>>
  ELSE IF node.property.type = "NumericLiteral" THEN <<node.property.value>>
  ELSE IF node.property.type = "Identifier" THEN <<0>>
  ELSE <<1>>

getIndexFromArrayAccess(node) ==
  IF node.type = "Null" \/ "property" \notin DOMAIN node THEN <<>>
  ELSE IF node.property.type = "NumericLiteral" THEN <<node.property.value>>
  ELSE <<>>

\* Variant of getSwapIndices: the two sides are not counted, the first two
\* elements of the pattern are read whatever follows them.
getSwapIndices_uncounted(node) ==
  LET left == node.expression.left.elements
  IN IF Len(left) >= 2
       THEN LET i1 == getIndexFromArrayAccess(left[1])
                i2 == getIndexFromArrayAccess(left[2])
            IN IF i1 # <<>> /\ i2 # <<>> THEN i1 \o i2 ELSE <<>>
       ELSE <<>>

getSwapIndices(node) ==
  LET left == node.expression.left.elements
      right == node.expression.right.elements
  IN IF Len(left) = 2 /\ Len(right) = 2
       THEN LET i1 == getIndexFromArrayAccess(left[1])
                i2 == getIndexFromArrayAccess(left[2])
            IN IF i1 # <<>> /\ i2 # <<>> THEN i1 \o i2 ELSE <<>>
       ELSE <<>>

isArrayAccess(node, name) ==
  /\ node.type = "MemberExpression"
  /\ node.object.type = "Identifier"
  /\ node.object.name = name

ComparisonOps == {">", "<", ">=", "<=", "==", "===", "!=", "!=="}

isArrayComparison(node, name) ==
  /\ node.type = "BinaryExpression"
  /\ node.operator \in ComparisonOps
  /\ (isArrayAccess(node.left, name) \/ isArrayAccess(node.right, name))

\* A literal index is taken as it is; a variable index becomes the placeholder
\* 0 on the left and 1 on the right; anything else contributes no index.
getComparisonIndices(node, name) ==
  (IF isArrayAccess(node.left, name) /\ node.left.property.type = "NumericLiteral"
     THEN <<node.left.property.value>>
   ELSE IF isArrayAccess(node.left, name) /\ node.left.property.type = "Identifier"
     THEN <<0>>
   ELSE <<>>)
  \o
  (IF isArrayAccess(node.right, name) /\ node.right.property.type = "NumericLiteral"
     THEN <<node.right.property.value>>
   ELSE IF isArrayAccess(node.right, name) /\ node.right.property.type = "Identifier"
     THEN <<1>>
   ELSE <<>>)

isArrayAssignment(node, name) ==
  /\ node.type = "AssignmentExpression"
  /\ node.left.type = "MemberExpression"
  /\ "name" \in DOMAIN node.left.object
  /\ node.left.object.name = name

\* { index, value } of an array assignment, each null or a number
getAssignmentDetails(node) ==
  [index |-> getIndexFromArrayAccess(node.left),
   value |-> IF node.right.type = "NumericLiteral" THEN <<node.right.value>> ELSE <<>>]

RECURSIVE expressionContainsVariable(_, _)
expressionContainsVariable(expr, varName) ==
  IF expr.type = "Null" THEN FALSE
  ELSE IF expr.type = "Identifier" /\ expr.name = varName THEN TRUE
  ELSE IF expr.type = "BinaryExpression"
    THEN \/ expressionContainsVariable(expr.left, varName)
         \/ expressionContainsVariable(expr.right, varName)
  ELSE FALSE

\* Variant of ElementValue: the element's value is returned without looking at
\* its type, which is undefined for anything but a numeric literal.
ElementValue_raw(el) == IF el.type = "NumericLiteral" THEN el.value ELSE undefined

\* The array an array literal is discovered as: a numeric literal gives its
\* value, every other element (a hole included) gives 0.
ElementValue(el) == IF el.type = "NumericLiteral" THEN el.value ELSE 0
DiscoveredArray(elements) == [k \in 1..Len(elements) |-> ElementValue(elements[k])]

\* The variant of the class without the `el &&` guard reads el.type of a
\* hole, which throws a TypeError.
HasHole(elements) == \E k \in 1..Len(elements) : elements[k].type = "Null"

\* Variant of ReplaySwap: the event's values are read after the exchange.
ReplaySwap_postValues(st, indices) ==
  LET after == SwapAt(st.arr, indices[1], indices[2])
  IN [ops |-> Append(st.ops, swapOp(indices, <<Get(after, indices[1]), Get(after, indices[2])>>)),
      arr |-> after]

\* One recognised swap statement applied to (operations, currentArray):
\* the event carries the values read before the exchange.
ReplaySwap(st, indices) ==
  [ops |-> Append(st.ops, swapOp(indices, <<Get(st.arr, indices[1]), Get(st.arr, indices[2])>>)),
   arr |-> SwapAt(st.arr, indices[1], indices[2])]

\* extractDirectSwaps / the ExpressionStatement visitor, for one statement
VisitExpressionStatement(st, node) ==
  IF isSwapOperation(node) /\ Len(getSwapIndices(node)) = 2
    THEN ReplaySwap(st, getSwapIndices(node))
    ELSE st

\* executeLoopBody: the statements directly inside the loop's block, in order
RECURSIVE LoopBodyStatements(_, _)
LoopBodyStatements(st, stmts) ==
  IF stmts = <<>> THEN st
  ELSE LET s == Head(stmts)
           next == IF s.type = "ExpressionStatement" /\ isSwapOperation(s)
                        /\ getSwapIndices(s) # <<>>
                     THEN ReplaySwap(st, getSwapIndices(s))
                     ELSE st
       IN LoopBodyStatements(next, Tail(stmts))

\* Variant of executeLoopBody: every swap statement below the body is
\* replayed, not only the statements directly inside the block.
executeLoopBody_deep(st, body) ==
  LoopBodyStatements(st, Visited(body, {"ExpressionStatement"}))

executeLoopBody(st, body) ==
  IF body.type = "BlockStatement" THEN LoopBodyStatements(st, body.body) ELSE st

\* ------------------------------------------------------------------------
\* Loop structure analysis
\* ------------------------------------------------------------------------
\* Variant of extractForLoops: the loops are listed last to first, so that
\* the last loop of the code is the one taken as the outer loop.
extractForLoops_lastFirst(ast) ==
  LET Keep(n) == n.type = "ForStatement"
      found == SelectSeq(PreOrderAll(Children(ast), FALSE), Keep)
  IN [k \in 1..Len(found) |-> found[Len(found) + 1 - k]]

\* Top-level for loops: every ForStatement that has no function parent.
extractForLoops(ast) ==
  LET Keep(n) == n.type = "ForStatement"
  IN SelectSeq(PreOrderAll(Children(ast), FALSE), Keep)

\* The numeric-literal initializer of the loop's first declaration, else 0.
LoopStart(loopNode) ==
  IF /\ loopNode.init.type = "VariableDeclaration"
     /\ Len(loopNode.init.declarations) > 0
     /\ loopNode.init.declarations[1].init.type = "NumericLiteral"
    THEN loopNode.init.declarations[1].init.value
    ELSE 0

\* The name of the loop's first declared variable, else the default.
LoopVar(loopNode, default) ==
  IF /\ loopNode.init.type = "VariableDeclaration"
     /\ Len(loopNode.init.declarations) > 0
    THEN loopNode.init.declarations[1].id.name
    ELSE default

\* executeSingleLoop's end, from the right operand of the loop test.
SingleLoopEnd(loopNode, length) ==
  IF loopNode.test.type = "BinaryExpression"
    THEN CASE loopNode.test.right.type = "NumericLiteral" -> loopNode.test.right.value
           [] loopNode.test.right.type = "MemberExpression" -> length
           [] loopNode.test.right.type = "BinaryExpression" -> length - 1
           [] OTHER -> length
    ELSE length

\* executeNestedLoops' outerEnd: a numeric literal is not looked at here.
OuterLoopEnd(loopNode, length) ==
  IF loopNode.test.type = "BinaryExpression"
    THEN CASE loopNode.test.right.type = "MemberExpression" -> length
           [] loopNode.test.right.type = "BinaryExpression" -> length - 1
           [] OTHER -> length
    ELSE length

\* Variant of InnerBoundUsesOuter: the dependence of the inner bound on the
\* outer variable is never detected.
InnerBoundUsesOuter_never(innerNode, outerVar) == FALSE

InnerBoundUsesOuter(innerNode, outerVar) ==
  /\ innerNode.test.type = "BinaryExpression"
  /\ innerNode.test.right.type = "BinaryExpression"
  /\ expressionContainsVariable(innerNode.test.right, outerVar)

\* The first for loop found below the outer loop's body, <<>> if none.
FindInnerLoop(outerNode) == Visited(outerNode.body, {"ForStatement"})

\* Is there a swap statement below this node?
ContainsSwap(root) ==
  LET stmts == Visited(root, {"ExpressionStatement"})
  IN \E k \in 1..Len(stmts) : isSwapOperation(stmts[k])

\* The traversal of the inner loop's body that looks for a guarded or an
\* unconditional swap: d is (hasSwap, alwaysSwap, swapConditionNode).
RECURSIVE DetectSwap(_, _)
DetectSwap(d, nodes) ==
  IF nodes = <<>> THEN d
  ELSE LET n == Head(nodes)
           next ==
             IF n.type = "IfStatement"
               THEN [d EXCEPT !.swapConditionNode = n.test,
                              !.hasSwap = d.hasSwap \/ ContainsSwap(n.consequent)]
             ELSE IF ~d.hasSwap /\ isSwapOperation(n)
               THEN [d EXCEPT !.hasSwap = TRUE, !.alwaysSwap = TRUE]
             ELSE d
       IN DetectSwap(next, Tail(nodes))

NoSwapFound == [hasSwap |-> FALSE, alwaysSwap |-> FALSE, swapConditionNode |-> Null]

\* What the analysis of a loop leaves for the replay.
NoLoop ==
  [start |-> 0, end |-> 0, body |-> Null, innerStart |-> 0, innerEnd |-> 0,
   innerBoundUsesOuter |-> FALSE, alwaysSwap |-> FALSE, hasSwap |-> FALSE,
   swapConditionNode |-> Null]

SingleLoopInfo(loopNode, length) ==
  [NoLoop EXCEPT !.start = LoopStart(loopNode),
                 !.end = SingleLoopEnd(loopNode, length),
                 !.body = loopNode.body]

NestedLoopInfo(outerNode, innerNode, length) ==
  LET d == DetectSwap(NoSwapFound, Visited(innerNode.body, {"IfStatement", "ExpressionStatement"}))
  IN [NoLoop EXCEPT !.start = LoopStart(outerNode),
                    !.end = OuterLoopEnd(outerNode, length),
                    !.innerStart = LoopStart(innerNode),
                    !.innerBoundUsesOuter = InnerBoundUsesOuter(innerNode, LoopVar(outerNode, "i")),
                    !.alwaysSwap = d.alwaysSwap,
                    !.hasSwap = d.hasSwap,
                    !.swapConditionNode = d.swapConditionNode]

\* Variant of shouldSwap: >= and <= are decided as > and <.
shouldSwap_strict(info, a, jj) ==
  IF info.alwaysSwap THEN TRUE
  ELSE IF info.swapConditionNode.type = "BinaryExpression"
    THEN CASE info.swapConditionNode.operator \in {">", ">="} -> Gt(Get(a, jj), Get(a, jj + 1))
           [] info.swapConditionNode.operator \in {"<", "<="} -> Lt(Get(a, jj), Get(a, jj + 1))
           [] OTHER -> FALSE
  ELSE FALSE

\* Determine if should swap, for the pair (j, j + 1) of the shadow array
shouldSwap(info, a, jj) ==
  IF info.alwaysSwap THEN TRUE
  ELSE IF info.swapConditionNode.type = "BinaryExpression"
    THEN CASE info.swapConditionNode.operator = ">"  -> Gt(Get(a, jj), Get(a, jj + 1))
           [] info.swapConditionNode.operator = "<"  -> Lt(Get(a, jj), Get(a, jj + 1))
           [] info.swapConditionNode.operator = ">=" -> Ge(Get(a, jj), Get(a, jj + 1))
           [] info.swapConditionNode.operator = "<=" -> Le(Get(a, jj), Get(a, jj + 1))
           [] OTHER -> FALSE
  ELSE FALSE

\* ------------------------------------------------------------------------
\* The code given to parse: families of small programs
\* ------------------------------------------------------------------------
Access(name, prop) == Member(Id(name), prop)
Length(name) == Member(Id(name), Id("length"))

\* [name[p], name[q]] = [name[q], name[p]];
SwapStmt(name, p, q) ==
  ExprStmt(Assign("=", ArrayPat(<<Access(name, p), Access(name, q)>>),
                       ArrayExpr(<<Access(name, q), Access(name, p)>>)))

\* let name = init;
Let(name, init) == VarDecl(<<Declarator(Id(name), init)>>)

NumArray(a) == ArrayExpr([k \in 1..Len(a) |-> Num(a[k])])

\* Array literals: numeric literals, a string literal, a hole.
LiteralElements == {Num(1), Num(MaxVal), Str, Null}
ArrayLiterals == {ArrayExpr(els) : els \in SeqsUpTo(LiteralElements, MaxLitLen)}
Initializers == ArrayLiterals \cup {Num(5)}

\* One or two declarations (the first named arr, the second b), then a swap.
DiscoveryCodes ==
  {Program(<<SwapStmt("arr", Num(0), Num(1))>>)}
  \cup {Program(<<Let("arr", a), SwapStmt("arr", Num(0), Num(1))>>) : a \in Initializers}
  \cup {Program(<<Let("arr", a), Let("b", b), SwapStmt("arr", Num(0), Num(1))>>) :
          a \in Initializers, b \in Initializers}

\* Statements of loop-free code.
Greater(l, r) == Bin(">", l, r)
LiteralSwaps == {SwapStmt("arr", Num(p), Num(q)) : p \in 0..MaxIdx, q \in 0..MaxIdx}
OtherStatements ==
  { IfStmt(Greater(Access("arr", Num(0)), Access("arr", Num(1))),
           Block(<<SwapStmt("arr", Num(0), Num(1))>>), Null),
    IfStmt(Greater(Access("arr", Num(0)), Access("arr", Num(1))), Block(<<>>), Null),
    IfStmt(Greater(Access("arr", Id("j")), Access("arr", Id("k"))), Block(<<>>), Null),
    IfStmt(Greater(Access("arr", Num(0)), Num(2)), Block(<<>>), Null),
    Func("f", Block(<<SwapStmt("arr", Num(1), Num(2))>>)),
    Func("g", Block(<<ForStmt(Null, Null, Null, Block(<<>>))>>)),
    SwapStmt("arr", Id("i"), Num(1)),
    SwapStmt("b", Num(0), Num(1)),
    ExprStmt(Assign("=", ArrayPat(<<Access("arr", Num(0))>>),
                         ArrayExpr(<<Access("arr", Num(0))>>))),
    ExprStmt(Assign("=", ArrayPat(<<Id("x"), Null>>), ArrayExpr(<<Id("y"), Id("x")>>))),
    ExprStmt(Assign("=", Access("arr", Num(0)), Num(7))),
    ExprStmt(Assign("+=", Access("arr", Num(1)), Num(7))),
    ExprStmt(Assign("=", Access("arr", Num(MaxIdx)), Num(7))),
    ExprStmt(Assign("=", Access("arr", Num(0)), Id("x"))),
    ExprStmt(Update(Id("x"))) }
DirectBodies ==
  SeqsUpTo(LiteralSwaps, MaxStmts)
  \cup {<<o>> : o \in OtherStatements}
  \cup {<<s, o>> : s \in LiteralSwaps, o \in OtherStatements}
  \cup {<<o, s>> : o \in OtherStatements, s \in LiteralSwaps}
  \cup {<<o, p>> : o \in OtherStatements, p \in OtherStatements}
DirectCodes ==
  {Program(<<Let("arr", NumArray(<<5, 3, 1>>))>> \o body) : body \in DirectBodies}
  \cup {Program(<<Let("arr", NumArray(<<4>>))>> \o body) :
          body \in {b \in DirectBodies : Len(b) <= 1}}

\* Code with for loops.
LetI(name, v) == VarDecl(<<Declarator(Id(name), Num(v))>>)
Minus(l, r) == Bin("-", l, r)
Less(name, r) == Bin("<", Id(name), r)
VarSwap == SwapStmt("arr", Id("j"), Bin("+", Id("j"), Num(1)))
Adjacent(op) == Bin(op, Access("arr", Id("j")), Access("arr", Bin("+", Id("j"), Num(1))))

LoopInits(name) == {LetI(name, 0), LetI(name, 1), Null}
SingleTests == {Less("i", Num(2)), Less("i", Length("arr")),
                Less("i", Minus(Length("arr"), Num(1))), Less("i", Id("n")), Null}
SingleBodies ==
  { Block(<<SwapStmt("arr", Num(0), Num(1))>>),
    Block(<<SwapStmt("arr", Num(0), Num(1)), SwapStmt("arr", Num(1), Num(MaxIdx))>>),
    Block(<<IfStmt(Greater(Access("arr", Num(0)), Access("arr", Num(1))),
                   Block(<<SwapStmt("arr", Num(0), Num(1))>>), Null)>>),
    Block(<<VarSwap, ExprStmt(Assign("=", Access("arr", Num(0)), Num(7)))>>),
    SwapStmt("arr", Num(0), Num(1)) }
SingleLoops ==
  {ForStmt(init, test, Update(Id("i")), body) :
     init \in LoopInits("i"), test \in SingleTests, body \in SingleBodies}
SingleLoopCodes ==
  {Program(<<Let("arr", NumArray(<<5, 3, 1>>)), l>>) : l \in SingleLoops}
  \cup {Program(<<Let("arr", NumArray(<<5, 3, 1>>)), l,
                  ForStmt(LetI("k", 0), Less("k", Num(2)), Update(Id("k")),
                          Block(<<SwapStmt("arr", Num(1), Num(2))>>))>>) :
          l \in {ForStmt(LetI("i", 0), Less("i", Num(2)), Update(Id("i")), b) :
                   b \in SingleBodies}}

OuterLoops(body) ==
  { ForStmt(LetI("i", 0), Less("i", Length("arr")), Update(Id("i")), body),
    ForStmt(LetI("i", 1), Less("i", Minus(Length("arr"), Num(1))), Update(Id("i")), body),
    ForStmt(Null, Less("i", Num(2)), Update(Id("i")), body) }
InnerTests ==
  { Less("j", Minus(Minus(Length("arr"), Id("i")), Num(1))),
    Less("j", Minus(Length("arr"), Num(1))),
    Less("j", Length("arr")) }
GuardOps == {">", "<", ">=", "<=", "=="}
InnerBodies ==
  {Block(<<IfStmt(Adjacent(op), Block(<<VarSwap>>), Null)>>) : op \in GuardOps}
  \cup { Block(<<VarSwap>>),
         Block(<<IfStmt(Adjacent(">"), Block(<<>>), Null)>>),
         Block(<<IfStmt(Adjacent(">"), Block(<<>>), Block(<<VarSwap>>))>>),
         Block(<<IfStmt(Id("flag"), Block(<<VarSwap>>), Null)>>),
         Block(<<>>) }
GuardedSwapBody == Block(<<IfStmt(Adjacent(">"), Block(<<VarSwap>>), Null)>>)
ClassicInnerTest == Less("j", Minus(Minus(Length("arr"), Id("i")), Num(1)))
ClassicInnerLoop == ForStmt(LetI("j", 0), ClassicInnerTest, Update(Id("j")), GuardedSwapBody)
InnerLoops ==
  {ForStmt(LetI("j", 0), ClassicInnerTest, Update(Id("j")), body) : body \in InnerBodies}
  \cup {ForStmt(init, test, Update(Id("j")), body) :
          init \in {LetI("j", 0), LetI("j", 1)}, test \in InnerTests,
          body \in {GuardedSwapBody, Block(<<VarSwap>>)}}
ClassicOuterLoop(body) ==
  ForStmt(LetI("i", 0), Less("i", Length("arr")), Update(Id("i")), body)
NestedLoops ==
  {ClassicOuterLoop(Block(<<inner>>)) : inner \in InnerLoops}
  \cup OuterLoops(Block(<<ClassicInnerLoop>>))
NestedArrays == {a \in InputArrays : Len(a) >= 1}
NestedLoopCodes ==
  {Program(<<Let("arr", NumArray(a)), l>>) : a \in NestedArrays, l \in NestedLoops}

Codes == DiscoveryCodes \cup DirectCodes \cup SingleLoopCodes \cup NestedLoopCodes

\* ------------------------------------------------------------------------
\* State
\* ------------------------------------------------------------------------
VARIABLES
  operations,    \* this.operations
  currentArray,  \* this.currentArray
  arrayName,     \* this.arrayName ("null" when null)
  pc,            \* position of the running call
  method,        \* the method the running / last call is a call of
  input,         \* the array argument of the running / last generator call
  arr,           \* the generator's working copy `arr`
  i, j,          \* loop counters
  minIdx,        \* selection sort's minIdx
  key,           \* insertion sort's key
  result,        \* outcome of the last call: "none", "trace" or an error name
  version,       \* which of the two CodeParser sources the instance is built from
  code,          \* the syntax tree of the code given to parse
  todo,          \* the nodes the running traversal still has to visit
  loop,          \* the loop analysis the replay runs on
  outcomes,      \* what each finished call gave its caller, in call order
  command,       \* the extension command that is running ("none" when none)
  outbox,        \* what the extension has sent: to the webview, the server's clients, the window
  visualDebugPanel,   \* is there a webview panel (visualDebugPanel is not null)
  pendingOperations,  \* the server's pendingOperations (<<>> when null)
  connectedSockets,   \* the server's connectedSockets
  isRunning,          \* the server's isRunning
  port,               \* the server's port
  connectionHandlers, \* how many handlers io.on("connection", ...) has registered
  httpServer,         \* this.server: its handle, listeners, scheduled events
  startPromise,       \* the promise the last call of start returned
  clients,            \* the sockets of the browser clients, in order of connection
  network,            \* what binding each port gives at the time of the last start
  sent,               \* the messages sendOperations was called to send, in order
  webviewOperations,  \* the webview script's operations
  currentStep,        \* the webview script's currentStep
  displayedArray,     \* the webview script's array (the array the canvas shows)
  isPlaying,          \* the webview script's isPlaying
  timers              \* how many setTimeout callbacks of playAnimation are pending

vars == <<operations, currentArray, arrayName, pc, method, input, arr, i, j, minIdx, key, result,
          version, code, todo, loop, outcomes, command, outbox, visualDebugPanel,
          pendingOperations, connectedSockets, isRunning, port, connectionHandlers,
          httpServer, startPromise, clients, network, sent, webviewOperations, currentStep,
          displayedArray, isPlaying, timers>>

\* The state of the extension and of the server, which no method of the
\* CodeParser reads or writes.
serverVars == <<isRunning, port, connectionHandlers, httpServer, startPromise, clients,
                network, sent>>
playerVars == <<webviewOperations, currentStep, displayedArray, isPlaying, timers>>
extVars == <<command, outbox, visualDebugPanel, pendingOperations, connectedSockets,
             serverVars, playerVars>>

\* The ports start tries: this.port = 3000 in the constructor, port < 3010 in
\* the error handler.
FirstPort == 3000
LastPort == 3010

\* this.server before any listen: no handle, no listener, nothing scheduled.
\* listening and error are the listeners of the two events, each the closure
\* of one call of tryPort; listens are the ports listen has tried to bind
\* since the last start; uncaught counts the calls of listen that threw.
NewHttpServer ==
  [handle |-> 0, listening |-> <<>>, error |-> <<>>, events |-> <<>>, listens |-> <<>>,
   closing |-> FALSE, uncaught |-> 0]
NoPromise == [state |-> "none", value |-> 0]

Idle == pc \in {"idle", "returned", "failed"}

Init ==
  /\ operations = <<>>
  /\ currentArray = <<>>
  /\ arrayName = "null"
  /\ pc = "idle"
  /\ method = "none"
  /\ input = <<>>
  /\ arr = <<>>
  /\ i = 0
  /\ j = 0
  /\ minIdx = 0
  /\ key = 0
  /\ result = "none"
  /\ version \in {"extractOperations", "executeCode"}
  /\ code = Null
  /\ todo = <<>>
  /\ loop = NoLoop
  /\ outcomes = <<>>
  /\ command = "none"
  /\ outbox = <<>>
  /\ visualDebugPanel = FALSE
  /\ pendingOperations = <<>>
  /\ connectedSockets = <<>>
  /\ isRunning = FALSE
  /\ port = FirstPort
  /\ connectionHandlers = 0
  /\ httpServer = NewHttpServer
  /\ startPromise = NoPromise
  /\ clients = <<>>
  /\ network = [p \in FirstPort..LastPort |-> "free"]
  /\ sent = <<>>
  /\ webviewOperations = <<>>
  /\ currentStep = 0
  /\ displayedArray = <<>>
  /\ isPlaying = FALSE
  /\ timers = 0

\* ------------------------------------------------------------------------
\* The arrays of operations the callers hold.  A call returns
\* this.operations itself, not a copy: outcomes[k].shared says that
\* this.operations is still the very array call k returned, so that a write
\* to this.operations is a write to the trace that caller holds.
\* ------------------------------------------------------------------------
\* Variant of Allocate: the call empties this.operations in place
\* (this.operations.length = 0) instead of making a new array.
Allocate_inPlace == outcomes' = outcomes

\* this.operations = [...] at the start of a call: a new array, which no
\* caller holds.
Allocate == outcomes' = [k \in DOMAIN outcomes |-> [outcomes[k] EXCEPT !.shared = FALSE]]

\* The same allocation in a call that throws before anything else happens.
AllocateAndThrow(m, a, error) ==
  outcomes' = Append([k \in DOMAIN outcomes |-> [outcomes[k] EXCEPT !.shared = FALSE]],
                     [method |-> m, arg |-> a, result |-> error, trace |-> <<>>,
                      shared |-> FALSE])

\* A step of a call, as the callers see it: the writes to this.operations
\* reach every holder of that array; `return this.operations` hands the array
\* to the caller, a throw hands it the error.
Hand ==
  outcomes' =
    LET seen == [k \in DOMAIN outcomes |->
                   IF outcomes[k].shared THEN [outcomes[k] EXCEPT !.trace = operations']
                                         ELSE outcomes[k]]
        arg == IF method = "parse" THEN code ELSE input
    IN IF pc' = "returned"
         THEN Append(seen, [method |-> method, arg |-> arg, result |-> "trace",
                            trace |-> operations', shared |-> TRUE])
       ELSE IF pc' = "failed"
         THEN Append(seen, [method |-> method, arg |-> arg, result |-> result',
                            trace |-> <<>>, shared |-> FALSE])
       ELSE seen

\* ------------------------------------------------------------------------
\* generateBubbleSort
\* ------------------------------------------------------------------------
generateBubbleSort(array) ==
  /\ Idle
  /\ currentArray' = array
  /\ operations' = <<initOp(array)>>
  /\ arr' = array
  /\ input' = array
  /\ i' = 0
  /\ j' = 0
  /\ pc' = "bubble_outer"
  /\ method' = "generateBubbleSort"
  /\ result' = "none"
  /\ minIdx' = 0
  /\ key' = 0
  /\ code' = Null
  /\ todo' = <<>>
  /\ loop' = NoLoop
  /\ UNCHANGED <<arrayName, version>>
  /\ Allocate

\* for (let i = 0; i < arr.length; i++) : test of the outer loop
BubbleOuter ==
  /\ pc = "bubble_outer"
  /\ IF i < Len(arr)
       THEN /\ j' = 0
            /\ pc' = "bubble_inner"
            /\ UNCHANGED <<operations, result>>
       ELSE /\ operations' = Append(operations, completeOp)
            /\ pc' = "returned"
            /\ result' = "trace"
            /\ UNCHANGED j
  /\ UNCHANGED <<method, version, code, todo, loop, currentArray, arrayName, input, arr, i, minIdx, key>>
  /\ UNCHANGED extVars
  /\ Hand

\* Variant of BubbleInnerOps: the exchange is made but no swap event recorded.
BubbleInnerOps_noSwap(a, jj) ==
  <<compareOp(<<jj, jj + 1>>, <<Get(a, jj), Get(a, jj + 1)>>)>>

\* The events one inner iteration appends.
BubbleInnerOps(a, jj) ==
  <<compareOp(<<jj, jj + 1>>, <<Get(a, jj), Get(a, jj + 1)>>)>>
  \o (IF Gt(Get(a, jj), Get(a, jj + 1))
        THEN <<swapOp(<<jj, jj + 1>>, <<Get(a, jj), Get(a, jj + 1)>>)>>
        ELSE <<>>)

\* Variant of BubbleInner: arr is the argument itself (const arr = array), so
\* the exchange is made in the caller's array.
BubbleInner_noCopy ==
  /\ pc = "bubble_inner"
  /\ IF j < Len(arr) - i - 1
       THEN /\ operations' = operations \o BubbleInnerOps(arr, j)
            /\ arr' = IF Gt(Get(arr, j), Get(arr, j + 1)) THEN SwapAt(arr, j, j + 1) ELSE arr
            /\ j' = j + 1
            /\ UNCHANGED <<i, pc>>
       ELSE /\ operations' = Append(operations, sortedOp(<<Len(arr) - i - 1>>))
            /\ i' = i + 1
            /\ pc' = "bubble_outer"
            /\ UNCHANGED <<arr, j>>
  /\ input' = arr'
  /\ UNCHANGED <<method, version, code, todo, loop, currentArray, arrayName, minIdx, key, result>>
  /\ UNCHANGED extVars
  /\ Hand

\* for (let j = 0; j < arr.length - i - 1; j++) : one inner iteration, or
\* the end of the pass
BubbleInner ==
  /\ pc = "bubble_inner"
  /\ IF j < Len(arr) - i - 1
       THEN /\ operations' = operations \o BubbleInnerOps(arr, j)
            /\ arr' = IF Gt(Get(arr, j), Get(arr, j + 1)) THEN SwapAt(arr, j, j + 1) ELSE arr
            /\ j' = j + 1
            /\ UNCHANGED <<i, pc>>
       ELSE /\ operations' = Append(operations, sortedOp(<<Len(arr) - i - 1>>))
            /\ i' = i + 1
            /\ pc' = "bubble_outer"
            /\ UNCHANGED <<arr, j>>
  /\ UNCHANGED <<method, version, code, todo, loop, currentArray, arrayName, input, minIdx, key, result>>
  /\ UNCHANGED extVars
  /\ Hand

\* ------------------------------------------------------------------------
\* generateSelectionSort
\* ------------------------------------------------------------------------
generateSelectionSort(array) ==
  /\ Idle
  /\ currentArray' = array
  /\ operations' = <<initOp(array)>>
  /\ arr' = array
  /\ input' = array
  /\ i' = 0
  /\ j' = 0
  /\ pc' = "selection_outer"
  /\ method' = "generateSelectionSort"
  /\ result' = "none"
  /\ minIdx' = 0
  /\ key' = 0
  /\ code' = Null
  /\ todo' = <<>>
  /\ loop' = NoLoop
  /\ UNCHANGED <<arrayName, version>>
  /\ Allocate

\* The events appended once the outer loop is over.
SelectionTail(a) == <<sortedOp(<<Len(a) - 1>>), completeOp>>

\* for (let i = 0; i < arr.length - 1; i++) : test of the outer loop
SelectionOuter ==
  /\ pc = "selection_outer"
  /\ IF i < Len(arr) - 1
       THEN /\ minIdx' = i
            /\ operations' = Append(operations, highlightOp(<<i>>))
            /\ j' = i + 1
            /\ pc' = "selection_inner"
            /\ UNCHANGED result
       ELSE /\ operations' = operations \o SelectionTail(arr)
            /\ pc' = "returned"
            /\ result' = "trace"
            /\ UNCHANGED <<j, minIdx>>
  /\ UNCHANGED <<method, version, code, todo, loop, currentArray, arrayName, input, arr, i, key>>
  /\ UNCHANGED extVars
  /\ Hand

\* Variant of SelectionPassOps: the exchange is made but no swap event recorded.
SelectionPassOps_noSwap(a, ii, m) == <<sortedOp(<<ii>>)>>

\* The events that end a pass: the exchange of a[i] with the minimum, if it
\* is elsewhere, and the sorted marker.
SelectionPassOps(a, ii, m) ==
  (IF m # ii THEN <<swapOp(<<ii, m>>, <<Get(a, ii), Get(a, m)>>)>> ELSE <<>>)
  \o <<sortedOp(<<ii>>)>>

\* for (let j = i + 1; j < arr.length; j++) : one inner iteration, or the
\* exchange that ends the pass
SelectionInner ==
  /\ pc = "selection_inner"
  /\ IF j < Len(arr)
       THEN /\ operations' = Append(operations,
                 compareOp(<<minIdx, j>>, <<Get(arr, minIdx), Get(arr, j)>>))
            /\ minIdx' = IF Lt(Get(arr, j), Get(arr, minIdx)) THEN j ELSE minIdx
            /\ j' = j + 1
            /\ UNCHANGED <<arr, i, pc>>
       ELSE /\ operations' = operations \o SelectionPassOps(arr, i, minIdx)
            /\ arr' = IF minIdx # i THEN SwapAt(arr, i, minIdx) ELSE arr
            /\ i' = i + 1
            /\ pc' = "selection_outer"
            /\ UNCHANGED <<j, minIdx>>
  /\ UNCHANGED <<method, version, code, todo, loop, currentArray, arrayName, input, key, result>>
  /\ UNCHANGED extVars
  /\ Hand

\* ------------------------------------------------------------------------
\* generateInsertionSort
\* ------------------------------------------------------------------------
generateInsertionSort(array) ==
  /\ Idle
  /\ currentArray' = array
  /\ operations' = <<initOp(array)>>
  /\ arr' = array
  /\ input' = array
  /\ i' = 1
  /\ j' = 0
  /\ pc' = "insertion_outer"
  /\ method' = "generateInsertionSort"
  /\ result' = "none"
  /\ minIdx' = 0
  /\ key' = 0
  /\ code' = Null
  /\ todo' = <<>>
  /\ loop' = NoLoop
  /\ UNCHANGED <<arrayName, version>>
  /\ Allocate

\* for (let i = 1; i < arr.length; i++) : test of the outer loop
InsertionOuter ==
  /\ pc = "insertion_outer"
  /\ IF i < Len(arr)
       THEN /\ key' = Get(arr, i)
            /\ j' = i - 1
            /\ operations' = Append(operations, highlightOp(<<i>>))
            /\ pc' = "insertion_while"
            /\ UNCHANGED result
       ELSE /\ operations' = Append(operations, completeOp)
            /\ pc' = "returned"
            /\ result' = "trace"
            /\ UNCHANGED <<j, key>>
  /\ UNCHANGED <<method, version, code, todo, loop, currentArray, arrayName, input, arr, i, minIdx>>
  /\ UNCHANGED extVars
  /\ Hand

\* Variant of InsertionShiftOps: the shift is made but no swap event recorded.
InsertionShiftOps_compareOnly(a, jj, k) == <<compareOp(<<jj, jj + 1>>, <<Get(a, jj), k>>)>>

\* The two events one iteration of the while loop appends.
InsertionShiftOps(a, jj, k) ==
  << compareOp(<<jj, jj + 1>>, <<Get(a, jj), k>>),
     swapOp(<<jj, jj + 1>>, <<Get(a, jj), Get(a, jj + 1)>>) >>

\* while (j >= 0 && arr[j] > key) : one shift, or the placement of key
InsertionWhile ==
  /\ pc = "insertion_while"
  /\ IF j >= 0 /\ Gt(Get(arr, j), key)
       THEN /\ operations' = operations \o InsertionShiftOps(arr, j, key)
            /\ arr' = Put(arr, j + 1, Get(arr, j))
            /\ j' = j - 1
            /\ UNCHANGED <<i, pc>>
       ELSE /\ arr' = Put(arr, j + 1, key)
            /\ operations' = Append(operations, sortedOp(<<j + 1>>))
            /\ i' = i + 1
            /\ pc' = "insertion_outer"
            /\ UNCHANGED j
  /\ UNCHANGED <<method, version, code, todo, loop, currentArray, arrayName, input, minIdx, key, result>>
  /\ UNCHANGED extVars
  /\ Hand

\* ------------------------------------------------------------------------
\* parse
\* ------------------------------------------------------------------------
setOp(index, value) == [type |-> "set", indices |-> <<index>>, value |-> value]
commentOp           == [type |-> "comment", message |-> "Entering loop"]

\* The node types the second pass of the extractOperations variant visits.
ExtractVisitors ==
  {"ForStatement", "BinaryExpression", "ExpressionStatement", "AssignmentExpression"}

\* Variant of parse: this.currentArray and this.arrayName are not reset.
parse_keepsArray(ast) ==
  /\ Idle
  /\ operations' = <<>>
  /\ code' = ast
  /\ todo' = Visited(ast, {"VariableDeclarator"})
  /\ loop' = NoLoop
  /\ pc' = IF ast = SyntaxError THEN "failed" ELSE "findArrayInitialization"
  /\ method' = "parse"
  /\ result' = IF ast = SyntaxError THEN "SyntaxError" ELSE "none"
  /\ input' = <<>>
  /\ arr' = <<>>
  /\ i' = 0
  /\ j' = 0
  /\ minIdx' = 0
  /\ key' = 0
  /\ UNCHANGED <<version, currentArray, arrayName>>
  /\ IF ast = SyntaxError THEN AllocateAndThrow("parse", ast, "SyntaxError") ELSE Allocate

\* The reset at the start of parse, parser.parse (which throws on source text
\* it rejects), and the start of the first pass.
parse(ast) ==
  /\ Idle
  /\ operations' = <<>>
  /\ currentArray' = <<>>
  /\ arrayName' = "null"
  /\ code' = ast
  /\ todo' = Visited(ast, {"VariableDeclarator"})
  /\ loop' = NoLoop
  /\ pc' = IF ast = SyntaxError THEN "failed" ELSE "findArrayInitialization"
  /\ method' = "parse"
  /\ result' = IF ast = SyntaxError THEN "SyntaxError" ELSE "none"
  /\ input' = <<>>
  /\ arr' = <<>>
  /\ i' = 0
  /\ j' = 0
  /\ minIdx' = 0
  /\ key' = 0
  /\ UNCHANGED version
  /\ IF ast = SyntaxError THEN AllocateAndThrow("parse", ast, "SyntaxError") ELSE Allocate

\* Does this declarator bind the array?  let arr = [...]
IsArrayDeclarator(d) == d.init.type = "ArrayExpression" /\ d.id.type = "Identifier"

\* First pass: the VariableDeclarator visitor, for one declarator.
findArrayInitialization ==
  /\ pc = "findArrayInitialization"
  /\ todo # <<>>
  /\ LET d == Head(todo)
     IN IF IsArrayDeclarator(d)
          THEN IF version = "extractOperations" /\ HasHole(d.init.elements)
                 THEN /\ arrayName' = d.id.name
                      /\ pc' = "failed"
                      /\ result' = "TypeError"
                      /\ todo' = <<>>
                      /\ UNCHANGED currentArray
                 ELSE /\ arrayName' = d.id.name
                      /\ currentArray' = DiscoveredArray(d.init.elements)
                      /\ todo' = Tail(todo)
                      /\ UNCHANGED <<pc, result>>
          ELSE /\ todo' = Tail(todo)
               /\ UNCHANGED <<arrayName, currentArray, pc, result>>
  /\ UNCHANGED <<method, operations, input, arr, i, j, minIdx, key, version, code, loop>>
  /\ UNCHANGED extVars
  /\ Hand

\* After the first pass: no array found is thrown, or the init event is
\* pushed and the second pass starts.
parseInit ==
  /\ pc = "findArrayInitialization"
  /\ todo = <<>>
  /\ IF arrayName = "null" \/ Len(currentArray) = 0
       THEN /\ pc' = "failed"
            /\ result' = "NoArrayFound"
            /\ UNCHANGED <<operations, todo>>
       ELSE /\ operations' = Append(operations, initOp(currentArray))
            /\ pc' = version
            /\ todo' = IF version = "extractOperations"
                         THEN Visited(code, ExtractVisitors)
                         ELSE <<>>
            /\ UNCHANGED result
  /\ UNCHANGED <<method, currentArray, arrayName, input, arr, i, j, minIdx, key, version, code, loop>>
  /\ UNCHANGED extVars
  /\ Hand

\* executeCode: the classification by the number of top-level for loops.
executeCode ==
  /\ pc = "executeCode"
  /\ LET forLoops == extractForLoops(code)
         length == Len(currentArray)
         inner == IF Len(forLoops) >= 2 THEN FindInnerLoop(forLoops[1]) ELSE <<>>
     IN IF Len(forLoops) = 0
          THEN /\ todo' = Visited(code, {"ExpressionStatement"})
               /\ pc' = "extractDirectSwaps"
               /\ UNCHANGED <<loop, i>>
        ELSE IF Len(forLoops) = 1 \/ inner = <<>>
          THEN /\ loop' = SingleLoopInfo(forLoops[1], length)
               /\ i' = LoopStart(forLoops[1])
               /\ pc' = "executeSingleLoop"
               /\ UNCHANGED todo
        ELSE /\ loop' = NestedLoopInfo(forLoops[1], inner[1], length)
             /\ i' = LoopStart(forLoops[1])
             /\ pc' = "nestedOuter"
             /\ UNCHANGED todo
  /\ UNCHANGED <<method, operations, currentArray, arrayName, input, arr, j, minIdx, key,
                 result, version, code>>
  /\ UNCHANGED extVars
  /\ Hand

\* extractDirectSwaps: the ExpressionStatement visitor, for one statement
extractDirectSwaps ==
  /\ pc = "extractDirectSwaps"
  /\ IF todo # <<>>
       THEN LET st == VisitExpressionStatement([ops |-> operations, arr |-> currentArray],
                                               Head(todo))
            IN /\ operations' = st.ops
               /\ currentArray' = st.arr
               /\ todo' = Tail(todo)
               /\ UNCHANGED pc
       ELSE /\ pc' = "complete"
            /\ UNCHANGED <<operations, currentArray, todo>>
  /\ UNCHANGED <<method, arrayName, input, arr, i, j, minIdx, key, result, version, code, loop>>
  /\ UNCHANGED extVars
  /\ Hand

\* executeSingleLoop: for (let i = start; i < end; i++) executeLoopBody
executeSingleLoop ==
  /\ pc = "executeSingleLoop"
  /\ IF i < loop.end
       THEN LET st == executeLoopBody([ops |-> operations, arr |-> currentArray], loop.body)
            IN /\ operations' = st.ops
               /\ currentArray' = st.arr
               /\ i' = i + 1
               /\ UNCHANGED pc
       ELSE /\ pc' = "complete"
            /\ UNCHANGED <<operations, currentArray, i>>
  /\ UNCHANGED <<method, arrayName, input, arr, j, minIdx, key, result, version, code, todo,
                 loop>>
  /\ UNCHANGED extVars
  /\ Hand

\* executeNestedLoops: for (let i = outerStart; i < outerEnd; i++),
\* the test of the outer loop and the inner bound of this pass
nestedOuter ==
  /\ pc = "nestedOuter"
  /\ IF i < loop.end
       THEN /\ loop' = [loop EXCEPT !.innerEnd =
                          IF loop.innerBoundUsesOuter
                            THEN Len(currentArray) - i - 1
                            ELSE Len(currentArray) - 1]
            /\ j' = loop.innerStart
            /\ pc' = "nestedInner"
       ELSE /\ pc' = "complete"
            /\ UNCHANGED <<loop, j>>
  /\ UNCHANGED <<method, operations, currentArray, arrayName, input, arr, i, minIdx, key,
                 result, version, code, todo>>
  /\ UNCHANGED extVars
  /\ Hand

\* The events one inner iteration appends.
NestedInnerOps(info, a, jj) ==
  <<compareOp(<<jj, jj + 1>>, <<Get(a, jj), Get(a, jj + 1)>>)>>
  \o (IF shouldSwap(info, a, jj)
        THEN <<swapOp(<<jj, jj + 1>>, <<Get(a, jj), Get(a, jj + 1)>>)>>
        ELSE <<>>)

\* Variant of PassEndOps: every outer iteration ends with a sorted marker.
PassEndOps_always(info, length, ii) == <<sortedOp(<<length - ii - 1>>)>>

\* Mark as sorted if inner bound reduces: the events the end of outer
\* iteration ii appends.
PassEndOps(info, length, ii) ==
  IF info.innerBoundUsesOuter /\ ~info.alwaysSwap
    THEN <<sortedOp(<<length - ii - 1>>)>>
    ELSE <<>>

\* Variant of nestedInner: after a swap the same pair is compared again (j is
\* advanced only when the pair is left as it is).
nestedInner_recompareAfterSwap ==
  /\ pc = "nestedInner"
  /\ IF j < loop.innerEnd
       THEN /\ operations' = operations \o NestedInnerOps(loop, currentArray, j)
            /\ currentArray' = IF shouldSwap(loop, currentArray, j)
                                 THEN SwapAt(currentArray, j, j + 1)
                                 ELSE currentArray
            /\ j' = IF shouldSwap(loop, currentArray, j) THEN j ELSE j + 1
            /\ UNCHANGED <<i, pc>>
       ELSE /\ operations' = operations \o PassEndOps(loop, Len(currentArray), i)
            /\ i' = i + 1
            /\ pc' = "nestedOuter"
            /\ UNCHANGED <<currentArray, j>>
  /\ UNCHANGED <<method, arrayName, input, arr, minIdx, key, result, version, code, todo, loop>>
  /\ UNCHANGED extVars
  /\ Hand

\* for (let j = innerStart; j < innerEnd; j++) : one inner iteration, or the
\* end of the pass with its sorted marker
nestedInner ==
  /\ pc = "nestedInner"
  /\ IF j < loop.innerEnd
       THEN /\ operations' = operations \o NestedInnerOps(loop, currentArray, j)
            /\ currentArray' = IF shouldSwap(loop, currentArray, j)
                                 THEN SwapAt(currentArray, j, j + 1)
                                 ELSE currentArray
            /\ j' = j + 1
            /\ UNCHANGED <<i, pc>>
       ELSE /\ operations' = operations \o PassEndOps(loop, Len(currentArray), i)
            /\ i' = i + 1
            /\ pc' = "nestedOuter"
            /\ UNCHANGED <<currentArray, j>>
  /\ UNCHANGED <<method, arrayName, input, arr, minIdx, key, result, version, code, todo, loop>>
  /\ UNCHANGED extVars
  /\ Hand

\* Variant of executeCodeComplete: parse returns without the completion marker.
executeCodeComplete_noMarker ==
  /\ pc = "complete"
  /\ pc' = "returned"
  /\ result' = "trace"
  /\ UNCHANGED <<method, operations, currentArray, arrayName, input, arr, i, j, minIdx, key,
                 version, code, todo, loop>>
  /\ UNCHANGED extVars
  /\ Hand

\* executeCode: add completion marker; parse returns this.operations
executeCodeComplete ==
  /\ pc = "complete"
  /\ operations' = Append(operations, completeOp)
  /\ pc' = "returned"
  /\ result' = "trace"
  /\ UNCHANGED <<method, currentArray, arrayName, input, arr, i, j, minIdx, key, version, code,
                 todo, loop>>
  /\ UNCHANGED extVars
  /\ Hand

\* The BinaryExpression visitor of extractOperations
VisitBinaryExpression(st, node, name) ==
  IF isArrayComparison(node, name) /\ Len(getComparisonIndices(node, name)) = 2
    THEN LET indices == getComparisonIndices(node, name)
         IN [st EXCEPT !.ops = Append(st.ops,
               compareOp(indices, <<Get(st.arr, indices[1]), Get(st.arr, indices[2])>>))]
    ELSE st

\* The AssignmentExpression visitor of extractOperations
VisitAssignmentExpression(st, node, name) ==
  IF isArrayAssignment(node, name)
       /\ getAssignmentDetails(node).index # <<>>
       /\ getAssignmentDetails(node).value # <<>>
    THEN LET index == getAssignmentDetails(node).index[1]
             value == getAssignmentDetails(node).value[1]
         IN [ops |-> Append(st.ops, setOp(index, value)), arr |-> Put(st.arr, index, value)]
    ELSE st

\* extractOperations: one visited node, or the completion marker and the
\* return of parse
extractOperations ==
  /\ pc = "extractOperations"
  /\ IF todo # <<>>
       THEN LET node == Head(todo)
                st0 == [ops |-> operations, arr |-> currentArray]
                st == CASE node.type = "ForStatement" ->
                             [st0 EXCEPT !.ops = Append(st0.ops, commentOp)]
                        [] node.type = "BinaryExpression" ->
                             VisitBinaryExpression(st0, node, arrayName)
                        [] node.type = "ExpressionStatement" ->
                             VisitExpressionStatement(st0, node)
                        [] node.type = "AssignmentExpression" ->
                             VisitAssignmentExpression(st0, node, arrayName)
            IN /\ operations' = st.ops
               /\ currentArray' = st.arr
               /\ todo' = Tail(todo)
               /\ UNCHANGED <<pc, result>>
       ELSE /\ operations' = Append(operations, completeOp)
            /\ pc' = "returned"
            /\ result' = "trace"
            /\ UNCHANGED <<currentArray, todo>>
  /\ UNCHANGED <<method, arrayName, input, arr, i, j, minIdx, key, version, code, loop>>
  /\ UNCHANGED extVars
  /\ Hand

\* ------------------------------------------------------------------------
\* Specification
\* ------------------------------------------------------------------------
\* Spec explores one call, with every input of the bounded sets, on a newly
\* constructed instance.
Fresh == pc = "idle"

CallGenerator ==
  /\ Fresh
  /\ \E array \in InputArrays :
       \/ generateBubbleSort(array)
       \/ generateSelectionSort(array)
       \/ generateInsertionSort(array)
  /\ UNCHANGED extVars

GeneratorStep ==
  \/ BubbleOuter
  \/ BubbleInner
  \/ SelectionOuter
  \/ SelectionInner
  \/ InsertionOuter
  \/ InsertionWhile

CallParse ==
  /\ Fresh
  /\ \E ast \in Codes : parse(ast)
  /\ UNCHANGED extVars

ParseStep ==
  \/ findArrayInitialization
  \/ parseInit
  \/ executeCode
  \/ extractDirectSwaps
  \/ executeSingleLoop
  \/ nestedOuter
  \/ nestedInner
  \/ executeCodeComplete
  \/ extractOperations

Next ==
  \/ CallGenerator
  \/ GeneratorStep
  \/ CallParse
  \/ ParseStep

Spec == Init /\ [][Next]_vars

\* ------------------------------------------------------------------------
\* SpecBubble: generateBubbleSort(A), then, on the same instance, parse of
\* the classic bubble sort code over the same array A.
\* ------------------------------------------------------------------------
\* let arr = A;
\* for (let i = 0; i < arr.length; i++)
\*   for (let j = 0; j < arr.length - i - 1; j++)
\*     if (arr[j] > arr[j + 1]) [arr[j], arr[j + 1]] = [arr[j + 1], arr[j]];
ClassicBubbleSortCode(a) ==
  Program(<<Let("arr", NumArray(a)), ClassicOuterLoop(Block(<<ClassicInnerLoop>>))>>)

CallBubbleSort ==
  /\ Fresh
  /\ \E array \in NestedArrays : generateBubbleSort(array)
  /\ UNCHANGED extVars

CallParseClassic ==
  /\ pc = "returned"
  /\ method = "generateBubbleSort"
  /\ parse(ClassicBubbleSortCode(input))
  /\ UNCHANGED extVars

NextBubble ==
  \/ CallBubbleSort
  \/ BubbleOuter
  \/ BubbleInner
  \/ CallParseClassic
  \/ findArrayInitialization
  \/ parseInit
  \/ executeCode
  \/ nestedOuter
  \/ nestedInner
  \/ executeCodeComplete
  \/ extractOperations

SpecBubble == Init /\ [][NextBubble]_vars

\* ------------------------------------------------------------------------
\* The extension: the commands that call the shared parser, and what they
\* send.  A command is modelled from the point where its prompts are
\* answered (an active editor, an algorithm choice, a non-empty array).
\* ------------------------------------------------------------------------
parserVars == <<operations, currentArray, arrayName, pc, method, input, arr, i, j, minIdx, key,
                result, version, code, todo, loop>>

\* `let arr = [${array.join(", ")}];\n${code}`
WithArray(a, body) == Program(<<Let("arr", NumArray(a))>> \o body)

SessionArray == <<2, 1>>
NoArrayCode == Program(<<SwapStmt("arr", Num(0), Num(1))>>)
DirectBody == <<SwapStmt("arr", Num(0), Num(1))>>
SingleLoopBody ==
  <<ForStmt(LetI("i", 0), Less("i", Num(2)), Update(Id("i")),
            Block(<<SwapStmt("arr", Num(0), Num(1))>>))>>
NestedBody == <<ClassicOuterLoop(Block(<<ClassicInnerLoop>>))>>
EmptyArrayBody == <<Let("b", ArrayExpr(<<>>))>>
EditorCodes ==
  {SyntaxError, NoArrayCode, WithArray(SessionArray, DirectBody),
   WithArray(SessionArray, SingleLoopBody), WithArray(SessionArray, NestedBody)}
WebviewCodes == {NoArrayCode, WithArray(SessionArray, NestedBody)}
CustomBodies == {DirectBody, EmptyArrayBody}

\* server.sendOperations: what is emitted to the connected clients
ServerEmits(ops) ==
  [k \in 1..Len(connectedSockets) |->
     [to |-> connectedSockets[k], type |-> "operations", operations |-> ops]]

\* visual-debug.start: create the webview panel if there is none
startCommand ==
  /\ command = "none"
  /\ Idle
  /\ ~visualDebugPanel
  /\ visualDebugPanel' = TRUE
  /\ UNCHANGED <<parserVars, outcomes, command, outbox, pendingOperations, connectedSockets,
                 serverVars, playerVars>>

\* visual-debug.debugCurrentFile: const operations = parser.parse(code)
debugFileCommand ==
  /\ command = "none"
  /\ Len(outcomes) < MaxCalls
  /\ \E ast \in EditorCodes : parse(ast)
  /\ command' = "debugCurrentFile"
  /\ UNCHANGED <<outbox, visualDebugPanel, pendingOperations, connectedSockets,
                 serverVars, playerVars>>

\* Variant of debugFileCommandEnd: what parse has collected is posted and sent
\* whether parse returned or threw (the sends are in a finally block).
debugFileCommandEnd_sendsAlways ==
  /\ command = "debugCurrentFile"
  /\ pc \in {"returned", "failed"}
  /\ visualDebugPanel' = TRUE
  /\ outbox' = outbox
                 \o <<[to |-> "webview", type |-> "operations", operations |-> operations]>>
                 \o ServerEmits(operations)
                 \o <<[to |-> "window",
                       type |-> IF pc = "returned" THEN "information" ELSE "error"]>>
  /\ pendingOperations' = <<operations>>
  /\ command' = "none"
  /\ UNCHANGED <<parserVars, outcomes, connectedSockets,
                 serverVars, playerVars>>

\* visual-debug.debugCurrentFile, after parse: the panel is created if there
\* is none, the operations are posted to the webview and sent to the server,
\* an information message is shown; or, parse having thrown, an error message
\* is shown.
debugFileCommandEnd ==
  /\ command = "debugCurrentFile"
  /\ pc \in {"returned", "failed"}
  /\ IF pc = "returned"
       THEN /\ visualDebugPanel' = TRUE
            /\ outbox' = outbox
                 \o <<[to |-> "webview", type |-> "operations", operations |-> operations]>>
                 \o ServerEmits(operations)
                 \o <<[to |-> "window", type |-> "information"]>>
            /\ pendingOperations' = <<operations>>
       ELSE /\ outbox' = Append(outbox, [to |-> "window", type |-> "error"])
            /\ UNCHANGED <<visualDebugPanel, pendingOperations>>
  /\ command' = "none"
  /\ UNCHANGED <<parserVars, outcomes, connectedSockets,
                 serverVars, playerVars>>

\* visual-debug.visualizeAlgorithm, custom code: parser.parse(fullCode)
visualizeAlgorithmCustom ==
  /\ command = "none"
  /\ Len(outcomes) < MaxCalls
  /\ \E body \in CustomBodies : parse(WithArray(SessionArray, body))
  /\ command' = "visualizeAlgorithm"
  /\ UNCHANGED <<outbox, visualDebugPanel, pendingOperations, connectedSockets,
                 serverVars, playerVars>>

\* visual-debug.visualizeAlgorithm, a named algorithm: parser.generate...(array)
visualizeAlgorithmGenerate ==
  /\ command = "none"
  /\ Len(outcomes) < MaxCalls
  /\ \/ generateBubbleSort(SessionArray)
     \/ generateSelectionSort(SessionArray)
     \/ generateInsertionSort(SessionArray)
  /\ command' = "visualizeAlgorithm"
  /\ UNCHANGED <<outbox, visualDebugPanel, pendingOperations, connectedSockets,
                 serverVars, playerVars>>

\* visual-debug.visualizeAlgorithm, after the call:
\* sendOperationsToVisualization and an information message, or an error
\* message.
visualizeAlgorithmEnd ==
  /\ command = "visualizeAlgorithm"
  /\ pc \in {"returned", "failed"}
  /\ IF pc = "returned"
       THEN /\ visualDebugPanel' = TRUE
            /\ outbox' = outbox
                 \o <<[to |-> "webview", type |-> "operations", operations |-> operations]>>
                 \o ServerEmits(operations)
                 \o <<[to |-> "window", type |-> "information"]>>
            /\ pendingOperations' = <<operations>>
       ELSE /\ outbox' = Append(outbox, [to |-> "window", type |-> "error"])
            /\ UNCHANGED <<visualDebugPanel, pendingOperations>>
  /\ command' = "none"
  /\ UNCHANGED <<parserVars, outcomes, connectedSockets,
                 serverVars, playerVars>>

\* The webview's visualizeCode message: parser.parse(message.code)
visualizeCode ==
  /\ command = "none"
  /\ visualDebugPanel
  /\ Len(outcomes) < MaxCalls
  /\ \E ast \in WebviewCodes : parse(ast)
  /\ command' = "visualizeCode"
  /\ UNCHANGED <<outbox, visualDebugPanel, pendingOperations, connectedSockets,
                 serverVars, playerVars>>

\* visualizeCode, after parse: the operations are posted to the webview and
\* sent to the server; or, parse having thrown, an error message is posted.
visualizeCodeEnd ==
  /\ command = "visualizeCode"
  /\ pc \in {"returned", "failed"}
  /\ IF pc = "returned"
       THEN /\ outbox' = outbox
                 \o <<[to |-> "webview", type |-> "operations", operations |-> operations]>>
                 \o ServerEmits(operations)
            /\ pendingOperations' = <<operations>>
       ELSE /\ outbox' = Append(outbox, [to |-> "webview", type |-> "error"])
            /\ UNCHANGED pendingOperations
  /\ command' = "none"
  /\ UNCHANGED <<parserVars, outcomes, visualDebugPanel, connectedSockets,
                 serverVars, playerVars>>

NextSession ==
  \/ startCommand
  \/ debugFileCommand
  \/ debugFileCommandEnd
  \/ visualizeAlgorithmCustom
  \/ visualizeAlgorithmGenerate
  \/ visualizeAlgorithmEnd
  \/ visualizeCode
  \/ visualizeCodeEnd
  \/ GeneratorStep
  \/ ParseStep

\* SpecSession: up to MaxCalls commands, one after the other, on the
\* extension's one parser.
SpecSession == Init /\ [][NextSession]_vars

\* ------------------------------------------------------------------------
\* SpecReplay: one call of parse on a fresh instance, with code that has
\* for loops in the shapes the loop analysis tells apart, and with code that
\* mixes swap statements the classifiers accept with ones they do not.
\* ------------------------------------------------------------------------
\* for (let j = 0; j < i; j++) if (arr[j] > arr[j + 1]) swap: the inner bound
\* is the outer variable itself.
BoundIsOuterVariable ==
  ForStmt(LetI("j", 0), Less("j", Id("i")), Update(Id("j")), GuardedSwapBody)

\* for (let i = 3; i < 2; i++): a loop that starts beyond its end.
EmptyRangeLoop(body) == ForStmt(LetI("i", 3), Less("i", Num(2)), Update(Id("i")), body)

\* A swap with variable indices between two swaps with literal indices.
MixedBody ==
  <<SwapStmt("arr", Num(0), Num(1)), VarSwap, SwapStmt("arr", Num(1), Num(2))>>
MixedBodyOuter ==
  <<SwapStmt("arr", Num(0), Num(1)), SwapStmt("arr", Id("i"), Num(1)),
    SwapStmt("arr", Num(1), Num(2))>>

\* Swap-shaped statements that are not swaps of two elements: a right side of
\* one element, a pattern of one element, of three, of none, a pattern with
\* a hole, and patterns with an element that is not an index access.
MalformedSwaps ==
  { ExprStmt(Assign("=", ArrayPat(<<Access("arr", Num(0)), Access("arr", Num(1))>>),
                         ArrayExpr(<<Access("arr", Num(1))>>))),
    ExprStmt(Assign("=", ArrayPat(<<Access("arr", Num(0))>>),
                         ArrayExpr(<<Access("arr", Num(0))>>))),
    ExprStmt(Assign("=", ArrayPat(<<Access("arr", Num(0)), Access("arr", Num(1)),
                                    Access("arr", Num(2))>>),
                         ArrayExpr(<<Access("arr", Num(2)), Access("arr", Num(1)),
                                     Access("arr", Num(0))>>))),
    ExprStmt(Assign("=", ArrayPat(<<>>), ArrayExpr(<<>>))),
    ExprStmt(Assign("=", ArrayPat(<<Null, Access("arr", Num(1))>>),
                         ArrayExpr(<<Access("arr", Num(1)), Access("arr", Num(0))>>))),
    ExprStmt(Assign("=", ArrayPat(<<Id("x"), Access("arr", Num(1))>>),
                         ArrayExpr(<<Access("arr", Num(1)), Id("x")>>))),
    ExprStmt(Assign("=", ArrayPat(<<Access("arr", Num(0)), Id("y")>>),
                         ArrayExpr(<<Id("y"), Access("arr", Num(0))>>))) }
MalformedBodies ==
  {<<SwapStmt("arr", Num(0), Num(1)), m, SwapStmt("arr", Num(1), Num(2))>> :
     m \in MalformedSwaps}

ReplayCodes ==
  NestedLoopCodes
  \cup SingleLoopCodes
  \cup {Program(<<Let("arr", NumArray(a)), ClassicOuterLoop(Block(<<BoundIsOuterVariable>>))>>) :
          a \in NestedArrays}
  \cup {Program(<<Let("arr", NumArray(<<5, 3, 1>>)), EmptyRangeLoop(b)>>) : b \in SingleBodies}
  \cup {Program(<<Let("arr", NumArray(<<5, 3, 1>>))>> \o body) :
          body \in {MixedBody, MixedBodyOuter}}
  \cup {Program(<<Let("arr", NumArray(<<5, 3, 1>>)),
                  ForStmt(LetI("i", 0), Less("i", Num(2)), Update(Id("i")), Block(body))>>) :
          body \in {MixedBody, MixedBodyOuter}}
  \cup {Program(<<Let("arr", NumArray(<<5, 3, 1>>))>> \o body) : body \in MalformedBodies}
  \cup {Program(<<Let("arr", NumArray(<<5, 3, 1>>)),
                  ForStmt(LetI("i", 0), Less("i", Num(2)), Update(Id("i")), Block(body))>>) :
          body \in MalformedBodies}

CallParseReplay ==
  /\ Fresh
  /\ \E ast \in ReplayCodes : parse(ast)
  /\ UNCHANGED extVars

NextReplay ==
  \/ CallParseReplay
  \/ findArrayInitialization
  \/ parseInit
  \/ executeCode
  \/ extractDirectSwaps
  \/ executeSingleLoop
  \/ nestedOuter
  \/ nestedInner
  \/ executeCodeComplete
  \/ extractOperations

SpecReplay == Init /\ [][NextReplay]_vars

\* ------------------------------------------------------------------------
\* SpecLoops: two calls of parse on one instance, the first with code that
\* has several for loops one after the other, the second with the same code
\* cut down to its first loop.
\* ------------------------------------------------------------------------
\* The statements without the for loops among them.
WithoutLoops(stmts) ==
  LET Keep(n) == n.type # "ForStatement"
  IN SelectSeq(stmts, Keep)

\* The statements without the for loops that come after the first one.
RECURSIVE UpToFirstLoop(_)
UpToFirstLoop(stmts) ==
  IF stmts = <<>> THEN <<>>
  ELSE IF Head(stmts).type = "ForStatement" THEN <<Head(stmts)>> \o WithoutLoops(Tail(stmts))
  ELSE <<Head(stmts)>> \o UpToFirstLoop(Tail(stmts))

\* The program without its second and further top-level loops.
FirstLoopOnly(ast) == Program(UpToFirstLoop(ast.body))

\* The program whose first loop has lost the second and further loops of its
\* body block.
RECURSIVE FirstInnerOnlyIn(_)
FirstInnerOnlyIn(stmts) ==
  IF stmts = <<>> THEN <<>>
  ELSE IF Head(stmts).type = "ForStatement" /\ Head(stmts).body.type = "BlockStatement"
    THEN <<[Head(stmts) EXCEPT !.body = Block(UpToFirstLoop(Head(stmts).body.body))]>>
         \o Tail(stmts)
  ELSE <<Head(stmts)>> \o FirstInnerOnlyIn(Tail(stmts))
FirstInnerOnly(ast) == Program(FirstInnerOnlyIn(ast.body))

KLoop(body) == ForStmt(LetI("k", 0), Less("k", Num(2)), Update(Id("k")), body)
UnguardedInnerLoop ==
  ForStmt(LetI("j", 1), Less("j", Length("arr")), Update(Id("j")), Block(<<VarSwap>>))

\* The first loop: a single loop, a loop around one inner loop, around two,
\* around a loop in a loop, a loop whose body is a loop without braces, and a
\* loop around a function that holds a loop.
FirstLoops ==
  { ForStmt(LetI("i", 0), Less("i", Num(2)), Update(Id("i")),
            Block(<<SwapStmt("arr", Num(0), Num(1))>>)),
    ClassicOuterLoop(Block(<<ClassicInnerLoop>>)),
    ClassicOuterLoop(Block(<<UnguardedInnerLoop, ClassicInnerLoop>>)),
    ClassicOuterLoop(Block(<<ClassicInnerLoop, UnguardedInnerLoop>>)),
    ClassicOuterLoop(Block(<<SwapStmt("arr", Num(0), Num(2)), ClassicInnerLoop>>)),
    ClassicOuterLoop(Block(<<KLoop(Block(<<ClassicInnerLoop>>))>>)),
    ClassicOuterLoop(ClassicInnerLoop),
    ForStmt(LetI("i", 0), Less("i", Num(2)), Update(Id("i")),
            Block(<<Func("g", Block(<<ClassicInnerLoop>>)),
                    SwapStmt("arr", Num(0), Num(1))>>)) }

\* What follows the first loop.
FurtherStatements ==
  { <<>>,
    <<KLoop(Block(<<SwapStmt("arr", Num(1), Num(2))>>))>>,
    <<ClassicOuterLoop(Block(<<UnguardedInnerLoop>>))>>,
    <<KLoop(Block(<<SwapStmt("arr", Num(0), Num(2))>>)),
      ClassicOuterLoop(Block(<<ClassicInnerLoop>>))>>,
    <<SwapStmt("arr", Num(0), Num(2)), KLoop(Block(<<SwapStmt("arr", Num(1), Num(2))>>))>> }

LoopsArrays == {<<5, 3, 1>>, <<1, 2, 0>>}
LoopsCodes ==
  {Program(<<Let("arr", NumArray(a)), first>> \o further) :
     a \in LoopsArrays, first \in FirstLoops, further \in FurtherStatements}

CallParseLoops ==
  /\ Fresh
  /\ \E ast \in LoopsCodes : parse(ast)
  /\ UNCHANGED extVars

\* The second call: the code of the first call, cut down.
CallParseCutDown ==
  /\ pc = "returned"
  /\ Len(outcomes) = 1
  /\ \E ast \in {FirstLoopOnly(code), FirstInnerOnly(code)} : parse(ast)
  /\ UNCHANGED extVars

NextLoops ==
  \/ CallParseLoops
  \/ CallParseCutDown
  \/ findArrayInitialization
  \/ parseInit
  \/ executeCode
  \/ executeSingleLoop
  \/ nestedOuter
  \/ nestedInner
  \/ executeCodeComplete
  \/ extractOperations

SpecLoops == Init /\ [][NextLoops]_vars

\* ------------------------------------------------------------------------
\* VisualizationServer (src/server.js)
\* ------------------------------------------------------------------------
MaxSockets == 2    \* most sockets that ever connect
MaxSends == 2      \* most calls of sendOperations
MaxStarts == 2     \* most calls of start that find the server not running
MaxListens == 4    \* most calls of server.listen within one start
MaxTaken == 2      \* most ports, counted from 3000 up, that are in use

\* What binding a port gives: the ports below 3000 + taken are in use, the
\* others are free, or the first of them is refused for another reason.
Environments ==
  {[p \in FirstPort..LastPort |->
      IF p < FirstPort + taken THEN "EADDRINUSE"
      ELSE IF p = FirstPort + taken THEN next
      ELSE "free"] : taken \in 0..MaxTaken, next \in {"free", "EACCES"}}

\* The traces sendOperations is called with: the server does not look into
\* them, so the k-th call is given a trace that tells it from the others.
Batch(k) == <<initOp(<<k>>), completeOp>>
Batches == {Batch(k) : k \in 1..MaxSends}

operationsMessage(ops) == [type |-> "operations", operations |-> ops]
\* sendInitialData(socket): socket.emit("initialize", data)
initializeMessage == [type |-> "initialize"]

resolve(promise, v) ==
  IF promise.state = "pending" THEN [state |-> "resolved", value |-> v] ELSE promise
reject(promise) ==
  IF promise.state = "pending" THEN [state |-> "rejected", value |-> 0] ELSE promise

\* this.server.listen(port, callback).on("error", handler), inside tryPort of
\* the start numbered n.  listen throws when the server has a handle; else it
\* adds the callback as a listener of "listening", tries to bind the port and
\* schedules "listening" or "error"; then the error handler is added.
listen(srv, p, n, net) ==
  IF srv.handle # 0
    THEN [srv EXCEPT !.uncaught = @ + 1]
    ELSE [srv EXCEPT
            !.listening = Append(@, [port |-> p, start |-> n]),
            !.error = Append(@, [port |-> p, start |-> n]),
            !.listens = Append(@, p),
            !.handle = IF net[p] = "free" THEN p ELSE 0,
            !.events = Append(@, IF net[p] = "free" THEN [type |-> "listening"]
                                 ELSE [type |-> "error", code |-> net[p]])]

\* start(), with the ports as net says they are: the promise of the current
\* port when running; else the connection handler is registered and
\* tryPort(this.port) is called.
start(net) ==
  /\ startPromise.state # "pending"
  /\ ~httpServer.closing
  /\ IF isRunning
       THEN /\ startPromise' = [state |-> "resolved", value |-> port]
            /\ UNCHANGED <<connectionHandlers, httpServer, network>>
       ELSE /\ connectionHandlers < MaxStarts
            /\ connectionHandlers' = connectionHandlers + 1
            /\ network' = net
            /\ httpServer' = listen([httpServer EXCEPT !.listens = <<>>], port,
                                    connectionHandlers + 1, net)
            /\ startPromise' = IF httpServer.handle # 0
                                 THEN [state |-> "rejected", value |-> 0]
                                 ELSE [state |-> "pending", value |-> 0]
  /\ UNCHANGED <<isRunning, port, clients, sent, pendingOperations, connectedSockets>>
  /\ UNCHANGED <<parserVars, outcomes, command, outbox, visualDebugPanel, playerVars>>

\* The "listening" event: every callback given to listen since the last such
\* event runs, in the order of the calls, and is removed (once):
\* this.port = port; this.isRunning = true; resolve(port).
RECURSIVE RunListeningCallbacks(_, _, _)
RunListeningCallbacks(st, callbacks, current) ==
  IF callbacks = <<>> THEN st
  ELSE LET cb == Head(callbacks)
       IN RunListeningCallbacks(
            [port |-> cb.port, isRunning |-> TRUE,
             promise |-> IF cb.start = current THEN resolve(st.promise, cb.port)
                         ELSE st.promise],
            Tail(callbacks), current)

emitListening ==
  /\ httpServer.events # <<>>
  /\ Head(httpServer.events).type = "listening"
  /\ LET st == RunListeningCallbacks(
                 [port |-> port, isRunning |-> isRunning, promise |-> startPromise],
                 httpServer.listening, connectionHandlers)
     IN /\ port' = st.port
        /\ isRunning' = st.isRunning
        /\ startPromise' = st.promise
  /\ httpServer' = [httpServer EXCEPT !.events = Tail(@), !.listening = <<>>]
  /\ UNCHANGED <<connectionHandlers, clients, network, sent, pendingOperations,
                 connectedSockets>>
  /\ UNCHANGED <<parserVars, outcomes, command, outbox, visualDebugPanel, playerVars>>

\* The "error" event: every handler added so far runs, in the order in which
\* they were added: tryPort(port + 1) on EADDRINUSE below 3010, else reject.
\* A listen that throws ends the emission.
RECURSIVE RunErrorHandlers(_, _, _, _, _)
RunErrorHandlers(st, handlers, errorCode, current, net) ==
  IF handlers = <<>> \/ st.thrown THEN st
  ELSE LET h == Head(handlers)
       IN IF errorCode = "EADDRINUSE" /\ h.port < LastPort
            THEN RunErrorHandlers(
                   [st EXCEPT !.srv = listen(st.srv, h.port + 1, h.start, net),
                              !.thrown = st.srv.handle # 0],
                   Tail(handlers), errorCode, current, net)
            ELSE RunErrorHandlers(
                   [st EXCEPT !.promise = IF h.start = current THEN reject(st.promise)
                                          ELSE st.promise],
                   Tail(handlers), errorCode, current, net)

emitError ==
  /\ httpServer.events # <<>>
  /\ Head(httpServer.events).type = "error"
  /\ LET st == RunErrorHandlers(
                 [srv |-> [httpServer EXCEPT !.events = Tail(@)],
                  promise |-> startPromise, thrown |-> FALSE],
                 httpServer.error, Head(httpServer.events).code, connectionHandlers,
                 network)
     IN /\ Len(st.srv.listens) <= MaxListens
        /\ httpServer' = st.srv
        /\ startPromise' = st.promise
  /\ UNCHANGED <<isRunning, port, connectionHandlers, clients, network, sent,
                 pendingOperations, connectedSockets>>
  /\ UNCHANGED <<parserVars, outcomes, command, outbox, visualDebugPanel, playerVars>>

\* stop(), when running: every socket of connectedSockets is disconnected
\* (which runs its disconnect handlers), connectedSockets is emptied and the
\* server is closed.
stop ==
  /\ isRunning
  /\ ~httpServer.closing
  /\ clients' = [s \in DOMAIN clients |->
                   IF \E k \in 1..Len(connectedSockets) : connectedSockets[k] = s
                     THEN [clients[s] EXCEPT !.connected = FALSE]
                     ELSE clients[s]]
  /\ connectedSockets' = <<>>
  /\ httpServer' = [httpServer EXCEPT !.handle = 0, !.closing = TRUE]
  /\ UNCHANGED <<isRunning, port, connectionHandlers, startPromise, network, sent,
                 pendingOperations>>
  /\ UNCHANGED <<parserVars, outcomes, command, outbox, visualDebugPanel, playerVars>>

\* The callback of this.server.close: this.isRunning = false; resolve().
stopComplete ==
  /\ httpServer.closing
  /\ isRunning' = FALSE
  /\ httpServer' = [httpServer EXCEPT !.closing = FALSE]
  /\ UNCHANGED <<port, connectionHandlers, startPromise, clients, network, sent,
                 pendingOperations, connectedSockets>>
  /\ UNCHANGED <<parserVars, outcomes, command, outbox, visualDebugPanel, playerVars>>

\* A browser connects: every registered connection handler pushes the new
\* socket and adds its ready and disconnect handlers to it.
connection ==
  /\ isRunning
  /\ httpServer.handle # 0
  /\ Len(clients) < MaxSockets
  /\ clients' = Append(clients, [connected |-> TRUE, handlers |-> connectionHandlers,
                                 ready |-> FALSE, received |-> <<>>])
  /\ connectedSockets' = connectedSockets
                           \o [k \in 1..connectionHandlers |-> Len(clients) + 1]
  /\ UNCHANGED <<isRunning, port, connectionHandlers, httpServer, startPromise, network, sent,
                 pendingOperations>>
  /\ UNCHANGED <<parserVars, outcomes, command, outbox, visualDebugPanel, playerVars>>

\* Variant of readyReply: the initial data, whatever is pending.
readyReply_initialData(pending) == initializeMessage

\* One ready handler: the pending operations if there are any, else the
\* initial data.
readyReply(pending) ==
  IF pending # <<>> THEN operationsMessage(pending[1]) ELSE initializeMessage

\* The socket's "ready" event: each ready handler of the socket runs.
ready ==
  \E s \in DOMAIN clients :
    /\ clients[s].connected
    /\ ~clients[s].ready
    /\ clients' = [clients EXCEPT
                     ![s].ready = TRUE,
                     ![s].received = @ \o [k \in 1..clients[s].handlers |->
                                             readyReply(pendingOperations)]]
    /\ UNCHANGED <<isRunning, port, connectionHandlers, httpServer, startPromise, network,
                   sent, pendingOperations, connectedSockets>>
    /\ UNCHANGED <<parserVars, outcomes, command, outbox, visualDebugPanel, playerVars>>

\* The socket's "disconnect" event: connectedSockets is filtered by the id.
disconnect ==
  \E s \in DOMAIN clients :
    /\ clients[s].connected
    /\ clients' = [clients EXCEPT ![s].connected = FALSE]
    /\ connectedSockets' = LET Keep(id) == id # s IN SelectSeq(connectedSockets, Keep)
    /\ UNCHANGED <<isRunning, port, connectionHandlers, httpServer, startPromise, network,
                   sent, pendingOperations>>
    /\ UNCHANGED <<parserVars, outcomes, command, outbox, visualDebugPanel, playerVars>>

\* connectedSockets.forEach(socket => socket.emit(...)): what each socket has
\* received after the emits.
RECURSIVE EmitToAll(_, _, _)
EmitToAll(cs, sockets, message) ==
  IF sockets = <<>> THEN cs
  ELSE EmitToAll([cs EXCEPT ![Head(sockets)].received = Append(@, message)],
                 Tail(sockets), message)

\* sendOperations(operations)
sendOperations ==
  /\ Len(sent) < MaxSends
  /\ \E ops \in {Batch(Len(sent) + 1)} :
       /\ pendingOperations' = <<ops>>
       /\ clients' = EmitToAll(clients, connectedSockets, operationsMessage(ops))
       /\ sent' = Append(sent, operationsMessage(ops))
  /\ UNCHANGED <<isRunning, port, connectionHandlers, httpServer, startPromise, network,
                 connectedSockets>>
  /\ UNCHANGED <<parserVars, outcomes, command, outbox, visualDebugPanel, playerVars>>

\* SpecListen: the server started and stopped, with ports in use or refused.
startListen == \E net \in Environments : start(net)

NextListen ==
  \/ startListen
  \/ emitListening
  \/ emitError
  \/ stop
  \/ stopComplete

\* The server does not use the parser: one of the two parser sources is enough.
InitServer == Init /\ version = "executeCode"
SpecListen == InitServer /\ [][NextListen]_vars

\* SpecServer: the server and its clients, every port being free.
AllFree == [p \in FirstPort..LastPort |-> "free"]
startServer == start(AllFree)

NextServer ==
  \/ startServer
  \/ emitListening
  \/ stop
  \/ stopComplete
  \/ connection
  \/ ready
  \/ disconnect
  \/ sendOperations

SpecServer == InitServer /\ [][NextServer]_vars

\* ------------------------------------------------------------------------
\* The webview player (the script of getWebviewContent, src/extension.js)
\* ------------------------------------------------------------------------
MaxTimers == 2     \* most playAnimation timers pending at once

\* animateSwap(i, j): the exchange, when both indices lie in the array.
animateSwap(array, p, q) ==
  IF p >= 0 /\ p < Len(array) /\ q >= 0 /\ q < Len(array)
    THEN [array EXCEPT ![p + 1] = array[q + 1], ![q + 1] = array[p + 1]]
    ELSE array

\* executeOperation(op), as far as the array goes: swap and init change it,
\* every other type of event only draws.
executeOperation(array, op) ==
  IF op.type = "swap" THEN animateSwap(array, op.indices[1], op.indices[2])
  ELSE IF op.type = "init" THEN op.array
  ELSE array

\* The player's state as a record, for the functions that call each other.
Player == [operations |-> webviewOperations, currentStep |-> currentStep,
           array |-> displayedArray, isPlaying |-> isPlaying, timers |-> timers]

SetPlayer(st) ==
  /\ webviewOperations' = st.operations
  /\ currentStep' = st.currentStep
  /\ displayedArray' = st.array
  /\ isPlaying' = st.isPlaying
  /\ timers' = st.timers

\* operations.length > 0 && operations[0].array
HasInitialArray(ops) == Len(ops) > 0 /\ "array" \in DOMAIN ops[1]

stepForward(st) ==
  IF st.currentStep < Len(st.operations)
    THEN [st EXCEPT !.array = executeOperation(st.array, st.operations[st.currentStep + 1]),
                    !.currentStep = st.currentStep + 1]
    ELSE st

reset(st) ==
  [st EXCEPT !.currentStep = 0,
             !.isPlaying = FALSE,
             !.array = IF HasInitialArray(st.operations) THEN st.operations[1].array
                       ELSE st.array]

\* for (let i = 0; i < targetStep; i++) executeOperation(operations[i])
RECURSIVE ExecuteUpTo(_, _, _, _)
ExecuteUpTo(array, ops, k, targetStep) ==
  IF k >= targetStep THEN array
  ELSE ExecuteUpTo(executeOperation(array, ops[k + 1]), ops, k + 1, targetStep)

stepBackward(st) ==
  IF st.currentStep > 0
    THEN LET targetStep == st.currentStep - 1
             afterReset == reset(st)
         IN [afterReset EXCEPT
               !.array = ExecuteUpTo(afterReset.array, st.operations, 0, targetStep),
               !.currentStep = targetStep]
    ELSE st

\* playAnimation(): one step and a new timer while playing and not at the end.
playAnimation(st) ==
  IF ~st.isPlaying \/ st.currentStep >= Len(st.operations)
    THEN [st EXCEPT !.isPlaying = FALSE]
    ELSE [stepForward(st) EXCEPT !.timers = st.timers + 1]

\* The message handler, for the message { type: 'operations' } the extension
\* posts with the trace a call of the parser has returned.
operationsMessageHandler ==
  /\ pc = "returned"
  /\ LET loaded == [Player EXCEPT
                      !.operations = operations,
                      !.currentStep = 0,
                      !.array = IF HasInitialArray(operations) THEN operations[1].array
                                ELSE displayedArray]
     IN SetPlayer(reset(loaded))
  /\ UNCHANGED <<parserVars, outcomes, command, outbox, visualDebugPanel,
                 pendingOperations, connectedSockets, serverVars>>

\* A click on Play / Pause.
playPauseClick ==
  /\ LET st == IF ~isPlaying THEN playAnimation([Player EXCEPT !.isPlaying = TRUE])
               ELSE [Player EXCEPT !.isPlaying = FALSE]
     IN /\ st.timers <= MaxTimers
        /\ SetPlayer(st)
  /\ UNCHANGED <<parserVars, outcomes, command, outbox, visualDebugPanel,
                 pendingOperations, connectedSockets, serverVars>>

stepForwardClick ==
  /\ SetPlayer(stepForward(Player))
  /\ UNCHANGED <<parserVars, outcomes, command, outbox, visualDebugPanel,
                 pendingOperations, connectedSockets, serverVars>>

stepBackwardClick ==
  /\ SetPlayer(stepBackward(Player))
  /\ UNCHANGED <<parserVars, outcomes, command, outbox, visualDebugPanel,
                 pendingOperations, connectedSockets, serverVars>>

resetClick ==
  /\ SetPlayer(reset(Player))
  /\ UNCHANGED <<parserVars, outcomes, command, outbox, visualDebugPanel,
                 pendingOperations, connectedSockets, serverVars>>

\* A timer set by playAnimation fires: setTimeout(() => playAnimation(), ...)
timerFires ==
  /\ timers > 0
  /\ SetPlayer(playAnimation([Player EXCEPT !.timers = timers - 1]))
  /\ UNCHANGED <<parserVars, outcomes, command, outbox, visualDebugPanel,
                 pendingOperations, connectedSockets, serverVars>>

\* SpecPlayer: one call of the parser, its trace loaded into the player, and
\* the player's controls and timers in every order.
PlayerArrays == {<<2, 1>>, <<3, 1, 2>>}
PlayerCodes ==
  {ClassicBubbleSortCode(<<3, 1, 2>>)}
  \cup {Program(<<Let("arr", NumArray(<<5, 3, 1>>)), SwapStmt("arr", Num(0), Num(q)),
                  SwapStmt("arr", Num(1), Num(2))>>) : q \in 1..3}

CallGeneratorPlayer ==
  /\ Fresh
  /\ \E array \in PlayerArrays :
       \/ generateBubbleSort(array)
       \/ generateSelectionSort(array)
       \/ generateInsertionSort(array)
  /\ UNCHANGED extVars

CallParsePlayer ==
  /\ Fresh
  /\ \E ast \in PlayerCodes : parse(ast)
  /\ UNCHANGED extVars

NextPlayer ==
  \/ CallGeneratorPlayer
  \/ BubbleOuter
  \/ BubbleInner
  \/ SelectionOuter
  \/ SelectionInner
  \/ InsertionOuter
  \/ InsertionWhile
  \/ CallParsePlayer
  \/ findArrayInitialization
  \/ parseInit
  \/ executeCode
  \/ extractDirectSwaps
  \/ nestedOuter
  \/ nestedInner
  \/ executeCodeComplete
  \/ extractOperations
  \/ operationsMessageHandler
  \/ playPauseClick
  \/ stepForwardClick
  \/ stepBackwardClick
  \/ resetClick
  \/ timerFires

SpecPlayer == Init /\ [][NextPlayer]_vars

\* ------------------------------------------------------------------------
\* Traces: what a consumer reads from a returned sequence of operations
\* ------------------------------------------------------------------------
Generators == {"generateBubbleSort", "generateSelectionSort", "generateInsertionSort"}
Returned == pc = "returned"
ReturnedBy(m) == pc = "returned" /\ method = m
ReturnedByGenerator == pc = "returned" /\ method \in Generators

CountType(ops, t) == Cardinality({k \in 1..Len(ops) : ops[k].type = t})

\* The array a consumer holds after the first n events: init.array with the
\* swap events exchanged and the set events written, in order.
RECURSIVE ReplayPrefix(_, _)
ReplayPrefix(ops, n) ==
  IF n <= 1 THEN ops[1].array
  ELSE LET before == ReplayPrefix(ops, n - 1)
           e == ops[n]
       IN IF e.type = "swap" THEN SwapAt(before, e.indices[1], e.indices[2])
          ELSE IF e.type = "set" THEN Put(before, e.indices[1], e.value)
          ELSE before
Replay(ops) == ReplayPrefix(ops, Len(ops))

IsSorted(a) == \A p \in 1..Len(a), q \in 1..Len(a) : p < q => a[p] <= a[q]
Occurrences(a, v) == Cardinality({p \in 1..Len(a) : a[p] = v})
IsPermutation(a, b) ==
  /\ Len(a) = Len(b)
  /\ \A p \in 1..Len(a) : Occurrences(a, a[p]) = Occurrences(b, a[p])

\* The events that carry indices, and whether they all lie in the array.
HasIndices(e) == e.type \in {"compare", "swap", "set", "highlight", "sorted"}
IndicesInRange(e, length) ==
  \A m \in 1..Len(e.indices) : e.indices[m] \in 0..(length - 1)

\* The array declarators of a program, in source order.
ArrayDeclarators(ast) == SelectSeq(Visited(ast, {"VariableDeclarator"}), IsArrayDeclarator)

\* What an array literal stands for: a numeric literal its value, any other
\* element 0.
LiteralAsArray(elements) ==
  [p \in 1..Len(elements) |->
     IF elements[p].type = "NumericLiteral" THEN elements[p].value ELSE 0]

\* ------------------------------------------------------------------------
\* Properties
\* ------------------------------------------------------------------------

\* C1: every returned trace (parse on code with a discovered non-empty array,
\* and the three generators on every input) has exactly one init event, at
\* index 0, and exactly one complete event, at the last index, and init.array
\* is the discovered / input array.
C1_OneInitOneComplete ==
  Returned =>
    /\ Len(operations) >= 2
    /\ operations[1].type = "init"
    /\ operations[Len(operations)].type = "complete"
    /\ CountType(operations, "init") = 1
    /\ CountType(operations, "complete") = 1
    /\ method \in Generators => operations[1].array = input
    /\ method = "parse" =>
         LET ds == ArrayDeclarators(code)
         IN \E k \in 1..Len(ds) :
              /\ ds[k].id.name = arrayName
              /\ operations[1].array = LiteralAsArray(ds[k].init.elements)

C1_Witness ==
  /\ ReturnedBy("parse")
  /\ version = "executeCode"
  /\ operations[1].array = <<5, 3, 1>>
  /\ CountType(operations, "swap") = 2
  /\ currentArray # <<5, 3, 1>>

\* C2: for every non-empty array A, generateBubbleSort(A) returns a trace
\* whose init.array is A and whose swap events, applied in order to a copy of
\* init.array, give A sorted in ascending order.
C2_BubbleSortSorts ==
  (ReturnedBy("generateBubbleSort") /\ input # <<>>) =>
    /\ operations[1].array = input
    /\ IsSorted(Replay(operations))
    /\ IsPermutation(Replay(operations), input)

C2_Witness ==
  /\ ReturnedBy("generateBubbleSort")
  /\ input = <<2, 1, 0>>
  /\ CountType(operations, "swap") = 3
  /\ Replay(operations) = <<0, 1, 2>>

\* C3: in every trace of a generator, each compare and swap event records, as
\* values[k], what the replayed array holds at indices[k] just before the
\* event is applied.
C3_ValuesAreReplayed ==
  ReturnedByGenerator =>
    \A n \in 2..Len(operations) :
      operations[n].type \in {"compare", "swap"} =>
        \A m \in 1..2 :
          operations[n].values[m] = Get(ReplayPrefix(operations, n - 1), operations[n].indices[m])

\* C4: for the empty input, each generator returns exactly init([]) followed
\* by complete.
C4_EmptyInputTwoEvents ==
  (ReturnedByGenerator /\ input = <<>>) => operations = <<initOp(<<>>), completeOp>>

\* C5: in every trace of a generator, for an input of any length, every index
\* of a compare, swap, highlight or sorted event lies in [0, init.array.length).
C5_GeneratorIndicesInRange ==
  ReturnedByGenerator =>
    \A n \in 1..Len(operations) :
      HasIndices(operations[n]) => IndicesInRange(operations[n], Len(operations[1].array))

\* C6: in every trace parse returns, every index of a compare, swap, set or
\* sorted event lies in [0, init.array.length); a statement with an index
\* outside that range is rejected, so the shadow array keeps its length.
C6_ParseIndicesInRange ==
  ReturnedBy("parse") =>
    /\ \A n \in 1..Len(operations) :
         HasIndices(operations[n]) => IndicesInRange(operations[n], Len(operations[1].array))
    /\ Len(currentArray) = Len(operations[1].array)

\* C7: with two or more array declarations, discovery binds the name and the
\* shadow array to the first one in source order.
DiscoveryDone == method = "parse" /\ pc = "findArrayInitialization" /\ todo = <<>>
C7_FirstDeclarationWins ==
  (DiscoveryDone /\ Len(ArrayDeclarators(code)) >= 2) =>
    /\ arrayName = ArrayDeclarators(code)[1].id.name
    /\ currentArray = LiteralAsArray(ArrayDeclarators(code)[1].init.elements)

\* C8: parse fails with the no-array-found error, returning no trace, exactly
\* when the code has no array declaration or the discovered array is empty;
\* with a non-empty array declaration in the code it does not fail that way.
ParseOver == method = "parse" /\ pc \in {"failed", "returned"} /\ result # "TypeError"
C8_NoArrayFoundExactly ==
  ParseOver =>
    LET ds == ArrayDeclarators(code)
        discovered == IF pc = "failed" THEN currentArray ELSE operations[1].array
    IN /\ (result = "NoArrayFound") <=> (ds = <<>> \/ discovered = <<>>)
       /\ (result = "NoArrayFound") => operations = <<>>
       /\ (\E k \in 1..Len(ds) : ds[k].init.elements # <<>>) => result # "NoArrayFound"

IsLiteralSwap(s) ==
  /\ s.expression.type = "AssignmentExpression"
  /\ s.expression.left.type = "ArrayPattern"
  /\ s.expression.right.type = "ArrayExpression"
  /\ Len(s.expression.left.elements) = 2
  /\ Len(s.expression.right.elements) = 2
  /\ \A m \in 1..2 :
       /\ s.expression.left.elements[m].type = "MemberExpression"
       /\ s.expression.left.elements[m].property.type = "NumericLiteral"
LiteralSwapStatements(ast) == SelectSeq(Visited(ast, {"ExpressionStatement"}), IsLiteralSwap)
LeftIndices(s) ==
  <<s.expression.left.elements[1].property.value, s.expression.left.elements[2].property.value>>
IsSwapEvent(e) == e.type = "swap"
SwapEvents(ops) == SelectSeq(ops, IsSwapEvent)

\* C10: for code with no top-level for loop, parse returns init, then one swap
\* event per swap statement with two literal left-side indices, in document
\* order whatever conditionals surround them, each carrying the shadow values
\* at its indices before the swap, then complete; replaying the trace on
\* init.array gives the final shadow array.  (The executeCode variant returns
\* nothing else; the extractOperations variant also records the comparisons,
\* assignments and loops it recognises.)
C10_DirectSwapsInDocumentOrder ==
  (ReturnedBy("parse") /\ extractForLoops(code) = <<>>) =>
    LET stmts == LiteralSwapStatements(code)
        swaps == SwapEvents(operations)
    IN /\ operations[1].type = "init"
       /\ operations[Len(operations)].type = "complete"
       /\ Len(swaps) = Len(stmts)
       /\ \A k \in 1..Len(stmts) : swaps[k].indices = LeftIndices(stmts[k])
       /\ \A n \in 2..Len(operations) :
            operations[n].type = "swap" =>
              \A m \in 1..2 :
                operations[n].values[m] =
                  Get(ReplayPrefix(operations, n - 1), operations[n].indices[m])
       /\ currentArray = Replay(operations)
       /\ version = "executeCode" => Len(operations) = Len(stmts) + 2

C10_Witness ==
  /\ ReturnedBy("parse")
  /\ code = Program(<<Let("arr", NumArray(<<5, 3, 1>>)), SwapStmt("arr", Num(0), Num(1))>>)
  /\ operations = <<initOp(<<5, 3, 1>>), swapOp(<<0, 1>>, <<5, 3>>), completeOp>>
  /\ currentArray = <<3, 5, 1>>

\* Loop-free code whose only statement after the declaration is
\* if (name[p] <op> name[q]) {} with two literal indices.
IsBareComparison(ast) ==
  /\ Len(ast.body) = 2
  /\ ast.body[2].type = "IfStatement"
  /\ ast.body[2].consequent = Block(<<>>)
  /\ ast.body[2].alternate = Null
  /\ ast.body[2].test.type = "BinaryExpression"
  /\ \A side \in {ast.body[2].test.left, ast.body[2].test.right} :
       /\ side.type = "MemberExpression"
       /\ side.property.type = "NumericLiteral"

\* C12: for loop-free code whose only array-related construct is a comparison
\* of two literal-indexed elements, with no swap statement, parse returns
\* exactly init, one compare event for those two indices, and complete.
C12_BareComparisonIsOneCompare ==
  (ReturnedBy("parse") /\ IsBareComparison(code)) =>
    LET test == code.body[2].test
        a == operations[1].array
        p == test.left.property.value
        q == test.right.property.value
    IN operations = <<initOp(a), compareOp(<<p, q>>, <<Get(a, p), Get(a, q)>>), completeOp>>

\* C17: for every array A, the swap events of generateSelectionSort(A), applied
\* in order to a copy of init.array, give A sorted in ascending order, and
\* the trace has at most length(A) - 1 swap events.
C17_SelectionSortSortsWithFewSwaps ==
  ReturnedBy("generateSelectionSort") =>
    /\ operations[1].array = input
    /\ IsSorted(Replay(operations))
    /\ IsPermutation(Replay(operations), input)
    /\ CountType(operations, "swap") <= Len(input) - 1

\* C17, amended: as above, with at most length(A) - 1 swap events for a
\* non-empty A and none for the empty array.
C17_SelectionSortSorts ==
  ReturnedBy("generateSelectionSort") =>
    /\ operations[1].array = input
    /\ IsSorted(Replay(operations))
    /\ IsPermutation(Replay(operations), input)
    /\ input # <<>> => CountType(operations, "swap") <= Len(input) - 1
    /\ input = <<>> => CountType(operations, "swap") = 0

C17_Witness ==
  /\ ReturnedBy("generateSelectionSort")
  /\ input = <<2, 0, 1>>
  /\ CountType(operations, "swap") = 2
  /\ Replay(operations) = <<0, 1, 2>>

\* C18: for every array A, the swap events of generateInsertionSort(A), each
\* applied as an exchange of its two positions, in order, to a copy of
\* init.array, give A sorted in ascending order, although the generator's
\* working array shifts elements instead of exchanging them.
C18_InsertionSortReplaySorts ==
  ReturnedBy("generateInsertionSort") =>
    /\ operations[1].array = input
    /\ IsSorted(Replay(operations))
    /\ IsPermutation(Replay(operations), input)
    /\ Replay(operations) = arr

C18_Witness ==
  /\ ReturnedBy("generateInsertionSort")
  /\ input = <<2, 1, 0>>
  /\ CountType(operations, "swap") = 3
  /\ Replay(operations) = <<0, 1, 2>>

\* The nested-loop case whose inner loop body holds no swap statement at all:
\* neither guarded by a conditional nor unconditional.
NestedWithoutSwap(ast) ==
  LET forLoops == extractForLoops(ast)
      inner == IF Len(forLoops) >= 2 THEN FindInnerLoop(forLoops[1]) ELSE <<>>
  IN /\ inner # <<>>
     /\ ~ContainsSwap(inner[1].body)

\* C20: in the nested-loop case, when the inner loop body holds neither a
\* conditional guarding a swap statement nor an unconditional swap statement,
\* parse emits compare events but no swap event and leaves the shadow array
\* as discovered.
C20_NoSwapStatementNoSwapEvent ==
  (ReturnedBy("parse") /\ version = "executeCode" /\ NestedWithoutSwap(code)) =>
    /\ CountType(operations, "swap") = 0
    /\ currentArray = operations[1].array

\* How far a running call is from its end: the phase of the call, the
\* iterations the outer loop (or the traversal) still has to make, whether the
\* inner loop is still to be entered, the iterations the inner loop still has
\* to make.  Measures are compared lexicographically.
Remaining(bound, counter) == IF bound > counter THEN bound - counter ELSE 0
Measure ==
  CASE pc = "findArrayInitialization" -> <<5, Len(todo), 0, 0>>
    [] pc = "executeCode" -> <<4, 0, 0, 0>>
    [] pc = "extractOperations" -> <<4, Len(todo), 0, 0>>
    [] pc = "extractDirectSwaps" -> <<3, Len(todo), 0, 0>>
    [] pc = "executeSingleLoop" -> <<3, Remaining(loop.end, i), 0, 0>>
    [] pc = "nestedOuter" -> <<3, Remaining(loop.end, i), 1, 0>>
    [] pc = "nestedInner" -> <<3, Remaining(loop.end, i), 0, Remaining(loop.innerEnd, j)>>
    [] pc = "bubble_outer" -> <<3, Remaining(Len(arr), i), 1, 0>>
    [] pc = "bubble_inner" -> <<3, Remaining(Len(arr), i), 0, Remaining(Len(arr) - i - 1, j)>>
    [] pc = "selection_outer" -> <<3, Remaining(Len(arr) - 1, i), 1, 0>>
    [] pc = "selection_inner" -> <<3, Remaining(Len(arr) - 1, i), 0, Remaining(Len(arr), j)>>
    [] pc = "insertion_outer" -> <<3, Remaining(Len(arr), i), 1, 0>>
    [] pc = "insertion_while" -> <<3, Remaining(Len(arr), i), 0, j + 1>>
    [] pc = "complete" -> <<2, 0, 0, 0>>
    [] OTHER -> <<0, 0, 0, 0>>
Lower(m, n) ==
  \E k \in 1..4 : m[k] < n[k] /\ \A l \in 1..(k - 1) : m[l] = n[l]

\* C13: every call to parse and to each generator terminates, for every
\* input, also when the guard operator is >= or <= and elements are equal:
\* the bounds of the replay loops do not change while the loops run, and
\* every step of a running call either ends the call (it returns, complete
\* appended, or fails) or strictly lowers a measure made of natural numbers,
\* so no call can take infinitely many steps.
CallOver == pc \in {"returned", "failed"}
C13_EveryCallTerminates ==
  [][~Idle =>
       /\ \A k \in 1..4 : Measure[k] \in Nat
       /\ pc' \in {"returned", "failed"} \/ Lower(Measure', Measure)
       /\ (pc \in {"executeSingleLoop", "nestedOuter", "nestedInner"}
             /\ pc' \in {"executeSingleLoop", "nestedOuter", "nestedInner"}) =>
            /\ loop'.start = loop.start
            /\ loop'.end = loop.end
            /\ loop'.innerStart = loop.innerStart
            /\ pc = "nestedInner" => loop'.innerEnd = loop.innerEnd]_vars

C13_Witness ==
  /\ ReturnedBy("parse")
  /\ loop.swapConditionNode.type = "BinaryExpression"
  /\ loop.swapConditionNode.operator = ">="
  /\ operations[1].array = <<1, 1>>
  /\ CountType(operations, "swap") >= 1

\* C16: no generator modifies the array passed to it: while a generator runs
\* the caller's array keeps its contents, and init.array stays equal to it
\* whatever is written to the working array.
C16_ArgumentIsNotModified ==
  [][(method \in Generators /\ ~Idle) =>
       /\ input' = input
       /\ operations'[1].array = input]_vars

C16_Witness ==
  /\ ReturnedBy("generateBubbleSort")
  /\ input = <<2, 1, 0>>
  /\ arr = <<0, 1, 2>>
  /\ operations[1].array = <<2, 1, 0>>

C14_ReturnedTraceIsUnchanged ==
  [][\A k \in DOMAIN outcomes :
       /\ k \in DOMAIN outcomes'
       /\ outcomes'[k].trace = outcomes[k].trace]_vars

\* Three calls are over: the first returned a trace, a later one failed, the
\* last returned a trace.
C14_Witness ==
  /\ Len(outcomes) = MaxCalls
  /\ CallOver
  /\ outcomes[1].result = "trace"
  /\ Len(outcomes[1].trace) > 2
  /\ outcomes[2].result # "trace"
  /\ outcomes[3].result = "trace"
  /\ outcomes[3].trace # outcomes[1].trace

\* C15: two calls of the same method with the same argument on one instance
\* have the same outcome (the same trace, or the same failure), whatever
\* calls came before each.
C15_TraceDependsOnArgumentOnly ==
  \A k, l \in DOMAIN outcomes :
    (outcomes[k].method = outcomes[l].method /\ outcomes[k].arg = outcomes[l].arg)
      => /\ outcomes[k].result = outcomes[l].result
         /\ outcomes[k].trace = outcomes[l].trace

\* The same argument was given to the first and the third call, another
\* call with another outcome in between.
C15_Witness ==
  /\ Len(outcomes) = MaxCalls
  /\ CallOver
  /\ outcomes[1].method = outcomes[3].method
  /\ outcomes[1].arg = outcomes[3].arg
  /\ outcomes[2].arg # outcomes[1].arg
  /\ outcomes[2].result # outcomes[1].result

\* C19: a command sends nothing while its call runs, and a command whose
\* call failed ends by surfacing one error message and nothing else: no
\* operations message to the webview, no call of server.sendOperations.
C19_FailedParseSendsNoOperations ==
  [][/\ command' # "none" => UNCHANGED <<outbox, pendingOperations>>
     /\ (command # "none" /\ command' = "none" /\ pc = "failed")
          => /\ pendingOperations' = pendingOperations
             /\ Len(outbox') = Len(outbox) + 1
             /\ SubSeq(outbox', 1, Len(outbox)) = outbox
             /\ outbox'[Len(outbox')].type = "error"]_vars

\* A command has ended on a failed parse after another command delivered a
\* trace: the error is the last message, the server still holds the trace.
C19_Witness ==
  /\ command = "none"
  /\ pc = "failed"
  /\ method = "parse"
  /\ Len(outcomes) = 2
  /\ outcomes[1].result = "trace"
  /\ outcomes[2].result \in {"NoArrayFound", "SyntaxError"}
  /\ Len(outbox) > 1
  /\ outbox[Len(outbox)].type = "error"
  /\ pendingOperations = <<outcomes[1].trace>>

\* The nested-loop case of executeCode: two or more top-level for loops, the
\* first of which has a for loop below its body.
IsNested(ast) ==
  LET forLoops == extractForLoops(ast)
  IN /\ Len(forLoops) >= 2
     /\ FindInnerLoop(forLoops[1]) # <<>>
NestedReturned == ReturnedBy("parse") /\ version = "executeCode" /\ IsNested(code)

\* The guard the analysis captured, between two values.
CapturedGuardHolds(x, y) ==
  \/ loop.alwaysSwap
  \/ /\ loop.swapConditionNode.type = "BinaryExpression"
     /\ \/ loop.swapConditionNode.operator = ">" /\ x > y
        \/ loop.swapConditionNode.operator = "<" /\ x < y
        \/ loop.swapConditionNode.operator = ">=" /\ x >= y
        \/ loop.swapConditionNode.operator = "<=" /\ x <= y

OuterLoopOf(ast) == extractForLoops(ast)[1]
InnerLoopOf(ast) == FindInnerLoop(OuterLoopOf(ast))[1]
InnerBoundOf(ast) ==
  IF InnerLoopOf(ast).test.type = "BinaryExpression" THEN InnerLoopOf(ast).test.right ELSE Null

\* Does the variable occur anywhere in the expression?
References(expr, v) ==
  LET nodes == PreOrder(expr, TRUE)
  IN \E k \in 1..Len(nodes) : nodes[k] = Id(v)

\* The pairs (j, j + 1) for j from jj up to but excluding bound.
RECURSIVE PairsUpTo(_, _)
PairsUpTo(jj, bound) ==
  IF jj >= bound THEN <<>> ELSE <<(<<jj, jj + 1>>)>> \o PairsUpTo(jj + 1, bound)

\* The pairs replayed by the outer iterations ii .. end - 1.
RECURSIVE ReplayedPairs(_, _, _, _, _)
ReplayedPairs(ii, end, innerStart, length, dependent) ==
  IF ii >= end THEN <<>>
  ELSE PairsUpTo(innerStart, IF dependent THEN length - ii - 1 ELSE length - 1)
       \o ReplayedPairs(ii + 1, end, innerStart, length, dependent)

IsCompareEvent(e) == e.type = "compare"
ComparedPairs(ops) ==
  LET compares == SelectSeq(ops, IsCompareEvent)
  IN [k \in 1..Len(compares) |-> compares[k].indices]

\* C22: in the nested-loop case, if the inner loop's bound references the
\* outer loop variable, outer iteration i compares the pairs (j, j + 1) for j
\* from innerStart up to but excluding arrayLength - i - 1, otherwise for j
\* from innerStart up to but excluding arrayLength - 1.
C22_InnerBoundFollowsReference ==
  NestedReturned =>
    ComparedPairs(operations) =
      ReplayedPairs(loop.start, loop.end, LoopStart(InnerLoopOf(code)),
                    Len(operations[1].array),
                    References(InnerBoundOf(code), LoopVar(OuterLoopOf(code), "i")))

IsSortedEvent(e) == e.type = "sorted"
SortedEvents(ops) == SelectSeq(ops, IsSortedEvent)

\* The number of compare events among the first n events.
ComparesBefore(ops, n) == Cardinality({m \in 1..n : ops[m].type = "compare"})

\* The position of the k-th sorted event.
SortedPosition(ops, k) ==
  CHOOSE n \in 1..Len(ops) :
    /\ ops[n].type = "sorted"
    /\ Cardinality({m \in 1..n : ops[m].type = "sorted"}) = k

NestedAnalysed ==
  /\ method = "parse"
  /\ version = "executeCode"
  /\ pc \in {"nestedOuter", "nestedInner", "complete", "returned"}
  /\ IsNested(code)

\* C24: in the nested-loop case the bounds of the outer and of the inner loop
\* are those the single-loop rules give: the start is the numeric-literal
\* initializer, the end is the literal right operand of the test, arrayLength
\* for an array-length operand, arrayLength - 1 for another binary
\* expression.  (The end of an inner loop whose bound was found to depend on
\* the outer variable is left to C22.)
C24_NestedBoundsBySingleLoopRules ==
  NestedAnalysed =>
    LET length == Len(currentArray)
    IN /\ loop.start = LoopStart(OuterLoopOf(code))
       /\ loop.end = SingleLoopEnd(OuterLoopOf(code), length)
       /\ loop.innerStart = LoopStart(InnerLoopOf(code))
       /\ (pc = "nestedInner" /\ ~loop.innerBoundUsesOuter) =>
            loop.innerEnd = SingleLoopEnd(InnerLoopOf(code), length)

\* The single-loop case with a loop test whose right operand is a numeric
\* literal, the length of an array, or another binary expression.
SingleLoopReturned ==
  /\ ReturnedBy("parse")
  /\ version = "executeCode"
  /\ Len(extractForLoops(code)) = 1
  /\ extractForLoops(code)[1].test.type = "BinaryExpression"
  /\ LET right == extractForLoops(code)[1].test.right
     IN \/ right.type \in {"NumericLiteral", "BinaryExpression"}
        \/ right.type = "MemberExpression" /\ right.property = Id("length")

\* The end of the loop by the three rules.
RuledEnd(loopNode, length) ==
  LET right == loopNode.test.right
  IN IF right.type = "NumericLiteral" THEN right.value
     ELSE IF right.type = "MemberExpression" THEN length
     ELSE length - 1

\* The swap statements with two literal left-side indices that are direct
\* children of the loop's body block.
IsDirectLiteralSwap(s) == s.type = "ExpressionStatement" /\ IsLiteralSwap(s)
DirectLiteralSwaps(loopNode) ==
  IF loopNode.body.type = "BlockStatement"
    THEN SelectSeq(loopNode.body.body, IsDirectLiteralSwap)
    ELSE <<>>

\* The swap events are those of `iterations` runs of the statements, in order.
SwapsRepeat(ops, stmts, iterations) ==
  LET swaps == SwapEvents(ops)
  IN /\ Len(swaps) = iterations * Len(stmts)
     /\ \A k \in 1..Len(swaps) :
          swaps[k].indices = LeftIndices(stmts[((k - 1) % Len(stmts)) + 1])

\* C25: with exactly one top-level for loop, the trace has (end - start)
\* times the swap events of the literal-indexed swap statements directly
\* inside the body block, in order, and no compare event; start is the
\* numeric-literal initializer (0 without one), end the literal right operand
\* of the test, arrayLength for an array-length operand, arrayLength - 1 for
\* another binary expression.
C25_SingleLoopReplaysEndMinusStartTimes ==
  SingleLoopReturned =>
    LET l == extractForLoops(code)[1]
        end == RuledEnd(l, Len(operations[1].array))
    IN /\ SwapsRepeat(operations, DirectLiteralSwaps(l), end - LoopStart(l))
       /\ CountType(operations, "compare") = 0

\* C25, amended: as above, the loop running for the index values start ..
\* end - 1, which are none when end is not above start.
C25_SingleLoopReplaysEachIndex ==
  SingleLoopReturned =>
    LET l == extractForLoops(code)[1]
        end == RuledEnd(l, Len(operations[1].array))
    IN /\ SwapsRepeat(operations, DirectLiteralSwaps(l), Remaining(end, LoopStart(l)))
       /\ CountType(operations, "compare") = 0
       /\ currentArray = Replay(operations)

\* for (let i = 1; i < arr.length; i++) with two swap statements in its body,
\* over three elements: two iterations, four swap events.
C25_Witness ==
  /\ SingleLoopReturned
  /\ LoopStart(extractForLoops(code)[1]) = 1
  /\ extractForLoops(code)[1].test.right = Length("arr")
  /\ Len(DirectLiteralSwaps(extractForLoops(code)[1])) = 2
  /\ Len(SwapEvents(operations)) = 4
  /\ Len(operations) = 6

\* A swap statement on the array `name`: the left side is a pattern of two
\* index accesses on name, the right side is the same two accesses reversed.
IsSwapOn(s, name) ==
  /\ s.expression.type = "AssignmentExpression"
  /\ s.expression.left.type = "ArrayPattern"
  /\ s.expression.right.type = "ArrayExpression"
  /\ Len(s.expression.left.elements) = 2
  /\ \A m \in 1..2 : isArrayAccess(s.expression.left.elements[m], name)
  /\ s.expression.right.elements =
       <<s.expression.left.elements[2], s.expression.left.elements[1]>>
SwapsOn(ast, name) ==
  LET Keep(s) == IsSwapOn(s, name)
  IN SelectSeq(Visited(ast, {"ExpressionStatement"}), Keep)

LoopFreeReturned == ReturnedBy("parse") /\ extractForLoops(code) = <<>>

\* C26: in loop-free code only the swap statements on the discovered array
\* are replayed: there are no more swap events than such statements, and
\* code without one gives no swap event and leaves the shadow array as
\* discovered.
C26_OnlySwapsOnTheArrayAreReplayed ==
  LoopFreeReturned =>
    /\ Len(SwapEvents(operations)) <= Len(SwapsOn(code, arrayName))
    /\ (version = "executeCode" /\ SwapsOn(code, arrayName) = <<>>) =>
         currentArray = operations[1].array

\* A swap statement on the array with an index that is not a numeric literal.
IsVariableSwap(s, name) ==
  /\ s.type = "ExpressionStatement"
  /\ IsSwapOn(s, name)
  /\ ~IsLiteralSwap(s)
HasVariableSwap(stmts, name) == \E k \in 1..Len(stmts) : IsVariableSwap(stmts[k], name)

\* C27: in the zero-loop and single-loop paths a swap statement on the array
\* with a non-literal index gives no event and no guessed index and leaves
\* the shadow array alone, and the swap statements with literal indices
\* before and after it are replayed: the swap events of the trace are those
\* of the literal-indexed statements, in order (once in loop-free code and
\* in the class that does not run loops, once per iteration in the single
\* loop), and the shadow array is the replay of the trace.
C27_VariableIndexSwapIsSkipped ==
  /\ (/\ ReturnedBy("parse")
      /\ version = "extractOperations" \/ extractForLoops(code) = <<>>
      /\ HasVariableSwap(Visited(code, {"ExpressionStatement"}), arrayName))
       => /\ SwapsRepeat(operations, LiteralSwapStatements(code), 1)
          /\ currentArray = Replay(operations)
          /\ version = "executeCode" =>
               Len(operations) = Len(LiteralSwapStatements(code)) + 2
  /\ (/\ ReturnedBy("parse")
      /\ version = "executeCode"
      /\ Len(extractForLoops(code)) = 1
      /\ extractForLoops(code)[1].body.type = "BlockStatement"
      /\ HasVariableSwap(extractForLoops(code)[1].body.body, arrayName))
       => /\ SwapsRepeat(operations, DirectLiteralSwaps(extractForLoops(code)[1]),
                         Remaining(loop.end, loop.start))
          /\ currentArray = Replay(operations)
          /\ Len(operations) = Len(SwapEvents(operations)) + 2

\* for (let i = 0; i < 2; i++) over [5, 3, 1] with, in the body, a swap of 0
\* and 1, the swap of j and j + 1, and a swap of 1 and 2: the two literal
\* swaps are replayed in each of the two iterations.
C27_Witness ==
  /\ ReturnedBy("parse")
  /\ version = "executeCode"
  /\ Len(extractForLoops(code)) = 1
  /\ extractForLoops(code)[1].body = Block(MixedBody)
  /\ operations = <<initOp(<<5, 3, 1>>),
                    swapOp(<<0, 1>>, <<5, 3>>), swapOp(<<1, 2>>, <<5, 1>>),
                    swapOp(<<0, 1>>, <<3, 1>>), swapOp(<<1, 2>>, <<3, 5>>),
                    completeOp>>
  /\ currentArray = <<1, 5, 3>>

\* The nodes of these types that do not lie inside a function body.
OutsideFunctions(ast, types) ==
  LET Keep(n) == IsOfType(n, types)
  IN SelectSeq(PreOrderAll(Children(ast), FALSE), Keep)

\* C28: parse does not descend into function definitions: a for loop inside
\* a function body does not make the code a loop case, and in loop-free code
\* the swap events are those of the swap statements outside function bodies,
\* in order, the shadow array being changed by them alone.
C28_FunctionBodiesAreInvisible ==
  /\ (method = "parse" /\ pc \in {"executeSingleLoop", "nestedOuter", "nestedInner"}) =>
       OutsideFunctions(code, {"ForStatement"}) # <<>>
  /\ LoopFreeReturned =>
       /\ SwapsRepeat(operations,
                      SelectSeq(OutsideFunctions(code, {"ExpressionStatement"}), IsLiteralSwap),
                      1)
       /\ currentArray = Replay(operations)

\* A set statement: a plain assignment of a numeric literal to an access on
\* the array with a numeric-literal index.
IsSetOn(node, name) ==
  /\ node.type = "AssignmentExpression"
  /\ node.operator = "="
  /\ isArrayAccess(node.left, name)
  /\ node.left.property.type = "NumericLiteral"
  /\ node.right.type = "NumericLiteral"
SetsOn(ast, name) ==
  LET Keep(node) == IsSetOn(node, name)
  IN SelectSeq(Visited(ast, {"AssignmentExpression"}), Keep)
IsSetEvent(e) == e.type = "set"
SetEvents(ops) == SelectSeq(ops, IsSetEvent)

\* C29: the class with the assignment visitor emits one set event, with the
\* index and the value, for each plain assignment of a numeric literal to a
\* literal-indexed element of the array, in order, and for no other
\* assignment (a compound one, or one with a non-literal right side or
\* index); the shadow array is the replay of the trace.
C29_OnlyPlainAssignmentsAreSets ==
  (ReturnedBy("parse") /\ version = "extractOperations") =>
    LET sets == SetsOn(code, arrayName)
        events == SetEvents(operations)
    IN /\ Len(events) = Len(sets)
       /\ \A k \in 1..Len(events) :
            events[k] = setOp(sets[k].left.property.value, sets[k].right.value)
       /\ currentArray = Replay(operations)

\* No swap event after a sorted event touches an index the sorted event lists.
SortedStaysFinal(ops) ==
  \A m \in 1..Len(ops), n \in 1..Len(ops) :
    (m < n /\ ops[m].type = "sorted" /\ ops[n].type = "swap") =>
      \A p \in 1..Len(ops[m].indices), q \in 1..Len(ops[n].indices) :
        ops[m].indices[p] # ops[n].indices[q]

\* C30: in every trace of a generator or of the nested-loop replay, once a
\* sorted event lists an index, no later swap event of the trace has that
\* index among its indices.
C30_SortedIndexIsNeverSwappedLater ==
  (ReturnedByGenerator \/ NestedReturned) => SortedStaysFinal(operations)

\* ------------------------------------------------------------------------
\* The comparison classifier (src/unnamed/part_000)
\* ------------------------------------------------------------------------
\* The node that the next step of extractOperations visits is a relational or
\* equality expression.
VisitsComparison ==
  /\ pc = "extractOperations"
  /\ todo # <<>>
  /\ Head(todo).type = "BinaryExpression"
  /\ Head(todo).operator \in ComparisonOps

\* The index that stands for an index access: its literal index, or the
\* placeholder when the index is not a literal.
IndexOrPlaceholder(access, placeholder) ==
  IF access.property.type = "NumericLiteral" THEN access.property.value ELSE placeholder

\* C31: in the comparison classifier, a relational/equality expression with
\* array accesses on both sides yields a compare event whose indices are the
\* literal index of each access or, for a non-literal index, the placeholder
\* 0 for the left operand and 1 for the right operand, with the values of the
\* shadow array at those indices; a comparison with an array access on one
\* side only yields no compare event.
C31_ComparisonOfTwoAccessesIsOneCompare ==
  [][VisitsComparison =>
       LET node == Head(todo)
           p == IndexOrPlaceholder(node.left, 0)
           q == IndexOrPlaceholder(node.right, 1)
       IN IF isArrayAccess(node.left, arrayName) /\ isArrayAccess(node.right, arrayName)
            THEN operations' = Append(operations,
                   compareOp(<<p, q>>, <<Get(currentArray, p), Get(currentArray, q)>>))
            ELSE operations' = operations]_vars

\* ------------------------------------------------------------------------
\* Malformed swap-shaped statements
\* ------------------------------------------------------------------------
\* A statement of the swap shape (a pattern assigned an array expression)
\* with a wrong element count on either side, a missing element in the
\* pattern, or a pattern element that is not an index access.
IsIndexAccess(el) == el.type = "MemberExpression"
IsMalformedSwap(s) ==
  /\ s.type = "ExpressionStatement"
  /\ s.expression.type = "AssignmentExpression"
  /\ s.expression.left.type = "ArrayPattern"
  /\ s.expression.right.type = "ArrayExpression"
  /\ \/ Len(s.expression.left.elements) # 2
     \/ Len(s.expression.right.elements) # 2
     \/ \E m \in 1..2 : ~IsIndexAccess(s.expression.left.elements[m])
MalformedIn(stmts) == SelectSeq(stmts, IsMalformedSwap)

TopLevelLoops(ast) ==
  LET Keep(n) == n.type = "ForStatement"
  IN SelectSeq(ast.body, Keep)

\* The for loops found below a loop's body, by tree search.
LoopsInside(loopNode) ==
  LET Keep(n) == n.type = "ForStatement"
  IN SelectSeq(PreOrderAll(Children(loopNode.body), TRUE), Keep)

Delivered(s) ==
  SubSeq(clients'[s].received, Len(clients[s].received) + 1, Len(clients'[s].received))

\* The socket's ready event is this step.
ReadyArrives(s) == s \in DOMAIN clients' /\ ~clients[s].ready /\ clients'[s].ready

\* C34: once sendOperations has been called, a client whose ready event
\* arrives receives an operations message carrying what the last call of
\* sendOperations was given, and nothing else (no older operations, no
\* initialize); a client whose ready event arrives before any call of
\* sendOperations receives initialize and no operations.
C34_ReadyReceivesLatestOperations ==
  [][\A s \in DOMAIN clients :
       ReadyArrives(s) =>
         /\ Delivered(s) # <<>>
         /\ \A k \in 1..Len(Delivered(s)) :
              Delivered(s)[k] = IF sent # <<>> THEN sent[Len(sent)] ELSE initializeMessage]_vars

\* Two calls of sendOperations, then a client connected and said ready: all
\* it has received is the operations of the second call.
C34_Witness ==
  /\ Len(sent) = 2
  /\ \E s \in DOMAIN clients :
       /\ clients[s].ready
       /\ clients[s].received = <<sent[2]>>
       /\ sent[2] # sent[1]
       /\ sent[2].type = "operations"

\* How many times the client has received the operations ops.
TimesReceived(s, ops) ==
  Cardinality({k \in 1..Len(clients[s].received) :
                 clients[s].received[k] = operationsMessage(ops)})

\* C35: whatever the order of connections, ready events, disconnections and
\* calls of sendOperations, no client receives the operations of one call
\* more than once.
C35_EachBatchAtMostOncePerClient ==
  \A s \in DOMAIN clients : \A ops \in Batches : TimesReceived(s, ops) <= 1

\* How many entries of connectedSockets are the socket s.
TimesListed(s) ==
  Cardinality({k \in 1..Len(connectedSockets) : connectedSockets[k] = s})

\* C36: after any sequence of start, connection, disconnection and stop,
\* connectedSockets holds every connected socket exactly once and no
\* disconnected socket, and once stop has completed connectedSockets is empty
\* and isRunning is false.
C36_ConnectedSocketsAreTheConnectedClients ==
  /\ \A s \in DOMAIN clients : TimesListed(s) = IF clients[s].connected THEN 1 ELSE 0
  /\ \A k \in 1..Len(connectedSockets) : connectedSockets[k] \in DOMAIN clients
  /\ ~isRunning => connectedSockets = <<>>
  /\ httpServer.closing => connectedSockets = <<>>

\* C37: start tries the ports one by one upwards, each at most once, going on
\* to the next only after EADDRINUSE and never beyond 3010; when it has
\* resolved, it has resolved with the port the server listens on, which is
\* this.port, and isRunning is true; when it has rejected, isRunning is
\* false; and with nothing left to happen it has resolved or rejected.
C37_PortsAreTriedInOrder ==
  /\ \A k \in 1..Len(httpServer.listens) :
       /\ httpServer.listens[k] \in FirstPort..LastPort
       /\ k > 1 => /\ httpServer.listens[k] = httpServer.listens[k - 1] + 1
                   /\ network[httpServer.listens[k - 1]] = "EADDRINUSE"
  /\ (startPromise.state = "resolved" /\ ~httpServer.closing /\ isRunning)
       => /\ startPromise.value = port
          /\ httpServer.handle = port
  /\ startPromise.state = "rejected" => ~isRunning \/ httpServer.closing
  /\ (startPromise.state = "pending") => httpServer.events # <<>>

\* ------------------------------------------------------------------------
\* The webview player
\* ------------------------------------------------------------------------
\* init.array with the swap events among the first n events exchanged, in
\* order (the first event of a trace is its init event).
RECURSIVE SwapsApplied(_, _)
SwapsApplied(ops, n) ==
  IF n = 0 THEN ops[1].array
  ELSE LET before == SwapsApplied(ops, n - 1)
       IN IF ops[n].type = "swap" THEN SwapAt(before, ops[n].indices[1], ops[n].indices[2])
          ELSE before

\* C38: with a trace loaded, after any sequence of stepForward, stepBackward
\* and reset, currentStep lies between 0 and operations.length and the array
\* the player displays is init.array with the swap events among
\* operations[0 .. currentStep) applied in order.
C38_PlayerShowsTheReplayedPrefix ==
  /\ currentStep \in 0..Len(webviewOperations)
  /\ webviewOperations # <<>> =>
       displayedArray = SwapsApplied(webviewOperations, currentStep)

\* C39: whatever the order of clicks on Play / Pause, Reset and the step
\* buttons and of timers firing, at most one playAnimation timer is pending.
C39_AtMostOneTimerPending == timers <= 1

====
